---- MODULE Spec2Model ----
(***************************************************************************)
(* A model of the Cylium language pipeline: the Pratt expression parser,   *)
(* the static validator, the bytecode compiler and the stack machine that  *)
(* runs the compiled tapes against a constant frame and local frames.      *)
(*                                                                         *)
(* Runtime values are records [type, val]; a string value is the sequence  *)
(* of its characters.  AST nodes, tokens and instructions are records      *)
(* with a discriminator field; a literal keeps its payload in a field      *)
(* named after its kind (num, str, bool).                                  *)
(***************************************************************************)
EXTENDS Integers, Sequences, FiniteSets, TLC

VARIABLES
    ast,        \* the program: the top-level AstNode sequence (parser output)
    phase,      \* "validate", "compile", "const_init", "run", "done", "exit", "error", "panic";
                \* "parse", "parsed" for the parser alone
    procs,      \* compile output: procedure name -> [args, body]
    const_code, \* compile output: the constant-initializer tape
    consts,     \* the VM's constant frame (a Scope)
    frames,     \* the VM's activations, innermost last: [name, tape, ip, locals, stack]
    out,        \* the lines echo has written to stdout
    error,      \* the diagnostic of a fatal error: [code, line], or NoError
    exit_code,  \* the process exit status, -1 while the process runs
    tokens,     \* the parser's token line; the lexer's output, one line per file line
    tree,       \* the result of parse_value over the token line
    handler,    \* the FileHandler: [ready_file, raw_file]
    parser      \* the Parser's cursor over the token grid: [line, pos]

vars ==
    <<ast, phase, procs, const_code, consts, frames, out, error, exit_code, tokens, tree,
      handler, parser>>

\* ---------------------------------------------------------------- results

Ok(v) == [ok |-> TRUE, val |-> v]

Err(e) == [ok |-> FALSE, err |-> e]

NoError == [code |-> "", line |-> -1]

\* ---------------------------------------------------------------- maps

EmptyMap == [n \in {} |-> TRUE]

MapInsert(m, k, v) == [n \in (DOMAIN m) \cup {k} |-> IF n = k THEN v ELSE m[n]]

MapRemove(m, k) == [n \in (DOMAIN m) \ {k} |-> m[n]]

\* ---------------------------------------------------------------- Types

TNumber(v) == [type |-> "Number", val |-> v]

TString(v) == [type |-> "String", val |-> v]

TBoolean(v) == [type |-> "Boolean", val |-> v]

\* A float is held in thousandths.
TFloat(v) == [type |-> "Float", val |-> v]

Abs(n) == IF n < 0 THEN -n ELSE n

\* Rust's integer `/`: the quotient truncated toward zero.
TruncDiv(a, b) ==
    IF (a < 0) = (b < 0) THEN Abs(a) \div Abs(b) ELSE -(Abs(a) \div Abs(b))

\* Rust's integer `%`: the remainder has the sign of the dividend.
TruncRem(a, b) == a - b * TruncDiv(a, b)

RECURSIVE Repeat(_, _)
Repeat(s, n) == IF n <= 0 THEN <<>> ELSE s \o Repeat(s, n - 1)

as_number(v) == IF v.type = "Number" THEN Ok(v.val) ELSE Err("A16")

as_string(v) == IF v.type = "String" THEN Ok(v.val) ELSE Err("A16")

as_bool(v) == IF v.type = "Boolean" THEN Ok(v.val) ELSE Err("A16")

types_rem(self, rhs) ==
    IF self.type = "Number"
    THEN IF ~as_number(rhs).ok THEN Err("A16")
         ELSE IF rhs.val = 0 THEN Err("panic")
         ELSE Ok(TNumber(TruncRem(self.val, rhs.val)))
    ELSE Err("A16")

types_div(self, rhs) ==
    IF self.type = "Number"
    THEN IF ~as_number(rhs).ok THEN Err("A16")
         ELSE IF rhs.val = 0 THEN Err("panic")
         ELSE Ok(TNumber(TruncDiv(self.val, rhs.val)))
    ELSE Err("A16")

types_mul(self, rhs) ==
    CASE self.type = "String" ->
            IF as_number(rhs).ok THEN Ok(TString(Repeat(self.val, rhs.val)))
            ELSE Err("A16")
      [] self.type = "Number" ->
            IF as_number(rhs).ok THEN Ok(TNumber(self.val * rhs.val))
            ELSE IF as_string(rhs).ok THEN Ok(TString(Repeat(rhs.val, self.val)))
            ELSE Err("A16")
      [] OTHER -> Err("A16")

types_add(self, rhs) ==
    CASE self.type = "String" ->
            IF as_string(rhs).ok THEN Ok(TString(self.val \o rhs.val)) ELSE Err("A16")
      [] self.type = "Number" ->
            IF as_number(rhs).ok THEN Ok(TNumber(self.val + rhs.val)) ELSE Err("A16")
      [] OTHER -> Err("A16")

types_sub(self, rhs) ==
    IF self.type = "Number"
    THEN IF as_number(rhs).ok THEN Ok(TNumber(self.val - rhs.val)) ELSE Err("A16")
    ELSE Err("A16")

\* The order of the characters of the model's alphabet.
CharRank(c) == CASE c = "a" -> 1 [] c = "b" -> 2 [] OTHER -> 3

\* Lexicographic order of two strings, as Rust's str ordering: -1, 0 or 1.
RECURSIVE StrCmp(_, _)
StrCmp(s, t) ==
    IF s = <<>> /\ t = <<>> THEN 0
    ELSE IF s = <<>> THEN -1
    ELSE IF t = <<>> THEN 1
    ELSE IF CharRank(Head(s)) < CharRank(Head(t)) THEN -1
    ELSE IF CharRank(Head(s)) > CharRank(Head(t)) THEN 1
    ELSE StrCmp(Tail(s), Tail(t))

\* The rank of a variant in the declaration order of the enum Types.
VariantRank(v) ==
    CASE v.type = "String" -> 1 [] v.type = "Boolean" -> 2
      [] v.type = "Number" -> 3 [] OTHER -> 4

\* The derived PartialOrd of Types: -1, 0 or 1.
types_cmp(a, b) ==
    IF a.type # b.type
    THEN (IF VariantRank(a) < VariantRank(b) THEN -1 ELSE 1)
    ELSE CASE a.type = "String" -> StrCmp(a.val, b.val)
           [] a.type = "Boolean" ->
                IF a.val = b.val THEN 0 ELSE IF b.val THEN -1 ELSE 1
           [] OTHER ->
                IF a.val = b.val THEN 0 ELSE IF a.val < b.val THEN -1 ELSE 1

\* ---------------------------------------------------------------- conversions

Digit(d) ==
    CASE d = 0 -> "0" [] d = 1 -> "1" [] d = 2 -> "2" [] d = 3 -> "3" [] d = 4 -> "4"
      [] d = 5 -> "5" [] d = 6 -> "6" [] d = 7 -> "7" [] d = 8 -> "8" [] d = 9 -> "9"

DigitChars == {"0", "1", "2", "3", "4", "5", "6", "7", "8", "9"}

DigitValue(c) == CHOOSE d \in 0..9 : Digit(d) = c

RECURSIVE NatToString(_)
NatToString(n) ==
    IF n < 10 THEN <<Digit(n)>> ELSE NatToString(n \div 10) \o <<Digit(n % 10)>>

\* i64::to_string without the sign.
i64_to_string_unsigned(n) == NatToString(IF n < 0 THEN -n ELSE n)

\* i64::to_string: the decimal digits, after a `-` for a negative number.
i64_to_string(n) == IF n < 0 THEN <<"-">> \o NatToString(-n) ELSE NatToString(n)

RECURSIVE DigitsValue(_, _)
DigitsValue(s, acc) ==
    IF s = <<>> THEN acc ELSE DigitsValue(Tail(s), acc * 10 + DigitValue(Head(s)))

\* str::parse::<i64>: an optional sign, then one or more digits.
parse_i64(s) ==
    LET signed == s # <<>> /\ Head(s) \in {"-", "+"}
        digits == IF signed THEN Tail(s) ELSE s
    IN  IF digits = <<>> \/ \E i \in 1..Len(digits) : digits[i] \notin DigitChars
        THEN Err("ParseIntError")
        ELSE IF signed /\ Head(s) = "-" THEN Ok(-DigitsValue(digits, 0))
        ELSE Ok(DigitsValue(digits, 0))

bool_to_string(b) == IF b THEN <<"t", "r", "u", "e">> ELSE <<"f", "a", "l", "s", "e">>

\* Types::convert_to_string: the new value, and the warning if there is one.
convert_to_string(self) ==
    CASE self.type = "String" -> [ok |-> TRUE, val |-> self, warning |-> "C01"]
      [] self.type = "Boolean" ->
            [ok |-> TRUE, val |-> TString(bool_to_string(self.val)), warning |-> ""]
      [] self.type = "Number" ->
            [ok |-> TRUE, val |-> TString(i64_to_string(self.val)), warning |-> ""]

\* Types::convert_to_number.
convert_to_number(self) ==
    CASE self.type = "String" ->
            IF parse_i64(self.val).ok
            THEN [ok |-> TRUE, val |-> TNumber(parse_i64(self.val).val), warning |-> ""]
            ELSE Err("A02")
      [] self.type = "Boolean" ->
            [ok |-> TRUE, val |-> TNumber(IF self.val THEN 1 ELSE 0), warning |-> ""]
      [] self.type = "Number" -> [ok |-> TRUE, val |-> self, warning |-> "C01"]

\* Types::convert_to_bool: a string that is neither "true" nor "false" panics.
convert_to_bool(self) ==
    CASE self.type = "String" ->
            IF self.val = bool_to_string(TRUE)
            THEN [ok |-> TRUE, val |-> TBoolean(TRUE), warning |-> ""]
            ELSE IF self.val = bool_to_string(FALSE)
            THEN [ok |-> TRUE, val |-> TBoolean(FALSE), warning |-> ""]
            ELSE Err("panic")
      [] self.type = "Boolean" -> [ok |-> TRUE, val |-> self, warning |-> "C01"]
      [] self.type = "Number" ->
            [ok |-> TRUE, val |-> TBoolean(self.val # 0), warning |-> ""]

\* The Display of a value: what echo prints.
Display(self) ==
    CASE self.type = "String" -> self.val
      [] self.type = "Boolean" -> bool_to_string(self.val)
      [] self.type = "Number" -> i64_to_string(self.val)

\* ---------------------------------------------------------------- Scope

ScopeNew == [vars |-> EmptyMap]

ScopeExist(self, name) == name \in DOMAIN self.vars

\* Option<&(Types, bool)>: Ok(entry) is Some(entry), Err("None") is None.
ScopeGet(self, cs, name) ==
    IF name \in DOMAIN self.vars THEN Ok(self.vars[name])
    ELSE IF name \in DOMAIN cs.vars THEN Ok(cs.vars[name])
    ELSE Err("None")

ScopeRemove(self, name) == [vars |-> MapRemove(self.vars, name)]

ScopeDeclare(self, name, value, is_const) ==
    [vars |-> MapInsert(self.vars, name, [value |-> value, is_const |-> is_const])]

\* ---------------------------------------------------------------- file handler

Whitespace == {" ", "\t"}

\* str::trim: the line without its leading and trailing whitespace.
RECURSIVE TrimStart(_), TrimEnd(_)
TrimStart(line) ==
    IF line # <<>> /\ Head(line) \in Whitespace THEN TrimStart(Tail(line)) ELSE line

TrimEnd(line) ==
    IF line # <<>> /\ line[Len(line)] \in Whitespace
    THEN TrimEnd(SubSeq(line, 1, Len(line) - 1))
    ELSE line

Trim(line) == TrimEnd(TrimStart(line))

\* FileHandler::new: raw_file is every line trimmed, ready_file the trimmed
\* lines that are neither empty nor comments.
FileHandlerNew(file) ==
    LET trimmed == [i \in 1..Len(file) |-> Trim(file[i])]
    IN  [raw_file |-> trimmed,
         ready_file |-> SelectSeq(trimmed, LAMBDA line : line # <<>> /\ Head(line) # "#")]

\* `self.raw_file.iter().position(|x| x == line).unwrap()`: the 0-based index
\* of the first line of raw_file equal to `line`.
position(raw_file, line) ==
    (CHOOSE i \in 1..Len(raw_file) :
        /\ raw_file[i] = line
        /\ \A j \in 1..(i - 1) : raw_file[j] # line) - 1

\* FileHandler::get_error: the line number and the line of the message.
get_error(line_number, line, error_) ==
    [kind |-> "error", number |-> line_number + 1, text |-> line, code |-> error_]

\* FileHandler::show_error: the message of the panic.
show_error(self, line_number, error_) ==
    LET line == self.ready_file[line_number + 1]
    IN  get_error(position(self.raw_file, line), line, error_)

\* ---------------------------------------------------------------- tokens, AST

Tok(t) == [tok |-> t]

TokIdent(name) == [tok |-> "Ident", name |-> name]

TokNumberValue(v) == [tok |-> "NumberValue", num |-> v]

TokStringValue(v) == [tok |-> "StringValue", str |-> v]

TokBooleanValue(v) == [tok |-> "BooleanValue", bool |-> v]

Ident(name) == [k |-> "Ident", name |-> name]

AstNumber(v) == [k |-> "Number", num |-> v]

AstString(v) == [k |-> "String", str |-> v]

AstBoolean(v) == [k |-> "Boolean", bool |-> v]

UnaryOp(op, expr) == [k |-> "UnaryOp", op |-> op, expr |-> expr]

BinaryOp(left, op, right) == [k |-> "BinaryOp", left |-> left, op |-> op, right |-> right]

AsOp(expr, op) == [k |-> "AsOp", expr |-> expr, op |-> op]

Echo(expr) == [k |-> "Echo", expr |-> expr]

Delete(name) == [k |-> "Delete", name |-> name]

Exit(code) == [k |-> "Exit", code |-> code]

VarDecl(name, type_, value, is_const) ==
    [k |-> "VarDecl", name |-> name, type_ |-> type_, value |-> value, is_const |-> is_const]

ProcCall(name, args) == [k |-> "ProcCall", name |-> name, args |-> args]

Assign(name, op, expr) == [k |-> "Assign", name |-> name, op |-> op, expr |-> expr]

Condition(expr, yes, no) == [k |-> "Condition", expr |-> expr, yes |-> yes, no |-> no]

While(expr, body) == [k |-> "While", expr |-> expr, body |-> body]

For(var_name, start, end, step, body) ==
    [k |-> "For", var_name |-> var_name, start |-> start, end |-> end,
     step |-> step, body |-> body]

Proc(name, body, args) == [k |-> "Proc", name |-> name, body |-> body, args |-> args]

\* Option<T>: None and Some(v).
None == [some |-> FALSE]

Some(v) == [some |-> TRUE, v |-> v]

ElseIf(node) == [else_k |-> "ElseIf", node |-> node]

Else(nodes) == [else_k |-> "Else", nodes |-> nodes]

\* The macro node!(line, kind).
Node(line, kind) == [line |-> line, kind |-> kind]

\* ---------------------------------------------------------------- lexer

DotChar == "."

\* The digits of an unsigned number without its leading zeros.
RECURSIVE StripZeros(_)
StripZeros(digits) ==
    IF Len(digits) > 1 /\ Head(digits) = "0" THEN StripZeros(Tail(digits)) ELSE digits

\* a <= b for two digit strings of the same length.
RECURSIVE DigitsLeq(_, _)
DigitsLeq(a, b) ==
    IF a = <<>> THEN TRUE
    ELSE IF Head(a) # Head(b) THEN DigitValue(Head(a)) < DigitValue(Head(b))
    ELSE DigitsLeq(Tail(a), Tail(b))

\* The digits of i64::MAX, 2^63 - 1.
I64MaxDigits ==
    <<"9", "2", "2", "3", "3", "7", "2", "0", "3", "6",
      "8", "5", "4", "7", "7", "5", "8", "0", "7">>

\* `value.parse::<i64>()` succeeds on an unsigned run: digits only, and a
\* value that fits 64 bits.
parses_i64_wide(value) ==
    /\ value # <<>>
    /\ \A i \in 1..Len(value) : value[i] \in DigitChars
    /\ LET digits == StripZeros(value)
       IN  \/ Len(digits) < Len(I64MaxDigits)
           \/ Len(digits) = Len(I64MaxDigits) /\ DigitsLeq(digits, I64MaxDigits)

\* `value.parse::<f64>()` succeeds on a run of digits and dots: at least one
\* digit and at most one dot.
parses_f64_run(value) ==
    /\ \A i \in 1..Len(value) : value[i] \in DigitChars \cup {DotChar}
    /\ \E i \in 1..Len(value) : value[i] \in DigitChars
    /\ Cardinality({i \in 1..Len(value) : value[i] = DotChar}) <= 1

\* Types::create on the text of a literal, which is kept as the value.
types_create(value) ==
    IF parses_i64_wide(value) THEN [type |-> "Number", text |-> value]
    ELSE IF parses_f64_run(value) THEN [type |-> "Float", text |-> value]
    ELSE IF value = <<"t", "r", "u", "e">> THEN [type |-> "Boolean", text |-> value]
    ELSE IF value = <<"f", "a", "l", "s", "e">> THEN [type |-> "Boolean", text |-> value]
    ELSE [type |-> "String", text |-> value]

TokValue(value) == [tok |-> "Value", value |-> value]

\* The letters of the lines the model reads.
LetterChars ==
    {"a", "b", "c", "d", "e", "f", "g", "h", "i", "j", "k", "l", "m",
     "n", "o", "p", "q", "r", "s", "t", "u", "v", "w", "x", "y", "z"}

\* The end of the run of characters of `set` that starts at i: the index of
\* the first character after it.
RECURSIVE RunEnd(_, _, _)
RunEnd(chars, i, set) ==
    IF i <= Len(chars) /\ chars[i] \in set THEN RunEnd(chars, i + 1, set) ELSE i

\* The end of a string literal whose first character is at i: the index of
\* the closing quote, or past the line.
RECURSIVE StringEnd(_, _)
StringEnd(chars, i) ==
    IF i <= Len(chars) /\ ~(chars[i - 1] # "\\" /\ chars[i] = "\"")
    THEN StringEnd(chars, i + 1)
    ELSE i

\* The token of a word: a boolean, a keyword or an identifier.
word_token(ident) ==
    CASE ident = <<"t", "r", "u", "e">> -> TokValue([type |-> "Boolean", text |-> ident])
      [] ident = <<"f", "a", "l", "s", "e">> -> TokValue([type |-> "Boolean", text |-> ident])
      [] ident = <<"c", "a", "l", "l">> -> Tok("Call")
      [] ident = <<"a", "s">> -> Tok("As")
      [] ident = <<"v", "a", "r">> -> Tok("Var")
      [] ident = <<"c", "o", "n", "s", "t">> -> Tok("Const")
      [] ident = <<"i", "f">> -> Tok("If")
      [] ident = <<"e", "l", "s", "e">> -> Tok("Else")
      [] ident = <<"e", "n", "d", "i", "f">> -> Tok("EndIf")
      [] ident = <<"e", "n", "d", "w", "h", "i", "l", "e">> -> Tok("EndWhile")
      [] ident = <<"e", "c", "h", "o">> -> Tok("Echo")
      [] ident = <<"e", "x", "i", "t">> -> Tok("Exit")
      [] ident = <<"d", "e", "l", "e", "t", "e">> -> Tok("Delete")
      [] ident = <<"p", "r", "o", "c">> -> Tok("Proc")
      [] ident = <<"e", "n", "d">> -> Tok("End")
      [] ident = <<"w", "h", "i", "l", "e">> -> Tok("While")
      [] ident = <<"n", "o", "t">> -> Tok("Not")
      [] ident = <<"a", "n", "d">> -> Tok("And")
      [] ident = <<"o", "r">> -> Tok("Or")
      [] OTHER -> [tok |-> "Ident", name |-> ident]

Punctuators ==
    [c \in {"(", ")", "[", "]", "{", "}", ","} |->
        CASE c = "(" -> "OpenParen" [] c = ")" -> "CloseParen"
          [] c = "[" -> "OpenBracket" [] c = "]" -> "CloseBracket"
          [] c = "{" -> "OpenBrace" [] c = "}" -> "CloseBrace"
          [] c = "," -> "Comma"]

\* The operators `check` looks at: the token alone, and the token before `=`.
Checked_ ==
    [c \in {"+", "-", "/", "%", "=", ">", "<", "*"} |->
        CASE c = "+" -> <<"Plus", "PlusAssign">> [] c = "-" -> <<"Minus", "MinusAssign">>
          [] c = "/" -> <<"Divide", "DivideAssign">> [] c = "%" -> <<"Mod", "ModAssign">>
          [] c = "=" -> <<"Assign", "Equal">> [] c = ">" -> <<"Greater", "GreaterEqual">>
          [] c = "<" -> <<"Less", "LessEqual">> [] c = "*" -> <<"Multiply", "MultiplyAssign">>]

\* tokenize_line from the character at i, 1-based, with the tokens so far.
RECURSIVE tokenize_from(_, _, _)
tokenize_from(chars, i, toks) ==
    IF i > Len(chars) THEN Ok(toks)
    ELSE LET c == chars[i]
             followed == i + 1 <= Len(chars) /\ chars[i + 1] = "="
         IN  CASE c \in Whitespace -> tokenize_from(chars, i + 1, toks)
               [] c \in DOMAIN Punctuators ->
                    tokenize_from(chars, i + 1, Append(toks, Tok(Punctuators[c])))
               [] c \in DOMAIN Checked_ ->
                    IF followed
                    THEN tokenize_from(chars, i + 2, Append(toks, Tok(Checked_[c][2])))
                    ELSE tokenize_from(chars, i + 1, Append(toks, Tok(Checked_[c][1])))
               [] c = "!" ->
                    IF followed THEN tokenize_from(chars, i + 2, Append(toks, Tok("NotEqual")))
                    ELSE Err("A15")
               [] c = "\"" ->
                    LET end == StringEnd(chars, i + 1)
                    IN  IF end > Len(chars) THEN Err("A21")
                        ELSE tokenize_from(chars, end + 1,
                                 Append(toks, TokValue([type |-> "String",
                                                        text |-> SubSeq(chars, i + 1, end - 1)])))
               [] c \in DigitChars ->
                    LET end == RunEnd(chars, i, DigitChars \cup {DotChar})
                    IN  tokenize_from(chars, end,
                            Append(toks, TokValue(types_create(SubSeq(chars, i, end - 1)))))
               [] c \in LetterChars \cup {"_"} ->
                    LET end == RunEnd(chars, i, LetterChars \cup DigitChars \cup {"_", "[", "]"})
                    IN  tokenize_from(chars, end,
                            Append(toks, word_token(SubSeq(chars, i, end - 1))))
               [] OTHER -> Err("A15")

tokenize_line(line) == tokenize_from(line, 1, <<>>)

\* tokenize_file from the line at index line_number of ready_file: the token
\* lines, or the first error and its line.
RECURSIVE tokenize_lines(_, _, _)
tokenize_lines(ready_file, line_number, grid) ==
    IF line_number >= Len(ready_file) THEN [ok |-> TRUE, val |-> grid]
    ELSE LET r == tokenize_line(Trim(ready_file[line_number + 1]))
         IN  IF r.ok THEN tokenize_lines(ready_file, line_number + 1, Append(grid, r.val))
             ELSE [ok |-> FALSE, err |-> r.err, line |-> line_number]

\* ---------------------------------------------------------------- validator

unary_type(op, value) ==
    CASE op.tok = "Not" -> IF value = "Boolean" THEN Ok("Boolean") ELSE Err("A39")
      [] op.tok = "Minus" -> IF value \in {"Number", "Float"} THEN Ok(value) ELSE Err("A16")
      [] OTHER -> Err("A15")

as_type(op, value) ==
    CASE op \in {"String", "Number", "Float", "Boolean"} ->
            IF value = op THEN Err("A40") ELSE Ok(op)
      [] OTHER -> IF value = "Float" THEN Ok("Float") ELSE Err("A41")

binary_type(op, left, right) ==
    CASE op.tok \in {"Or", "And"} ->
            IF left = "Boolean" /\ right = "Boolean" THEN Ok("Boolean") ELSE Err("A39")
      [] op.tok \in {"Equal", "NotEqual"} ->
            IF left = right THEN Ok("Boolean") ELSE Err("A39")
      [] op.tok \in {"Greater", "Less", "GreaterEqual", "LessEqual"} ->
            IF left = right /\ left # "Boolean" THEN Ok("Boolean") ELSE Err("A39")
      [] op.tok = "Plus" ->
            IF left = right /\ left # "Boolean" THEN Ok(left) ELSE Err("A16")
      [] op.tok \in {"Minus", "Divide"} ->
            IF left = right /\ left \in {"Number", "Float"} THEN Ok(left) ELSE Err("A16")
      [] op.tok = "Multiply" ->
            IF <<left, right>> \in {<<"String", "Number">>, <<"Number", "String">>}
            THEN Ok("String")
            ELSE IF left = right /\ left \in {"Number", "Float"} THEN Ok(left)
            ELSE Err("A16")
      [] op.tok = "Mod" ->
            IF left = "Number" /\ right = "Number" THEN Ok("Number") ELSE Err("A16")

RECURSIVE expr_check(_, _, _)
expr_check(variables, cs, node) ==
    CASE node.k \in {"Number", "Float", "String", "Boolean"} -> Ok(node.k)
      [] node.k = "Ident" ->
            IF node.name \in DOMAIN variables THEN Ok(variables[node.name].type_)
            ELSE IF node.name \in DOMAIN cs THEN Ok(cs[node.name])
            ELSE IF node.name = "input" THEN Ok("String")
            ELSE Err("A03")
      [] node.k = "UnaryOp" ->
            LET value == expr_check(variables, cs, node.expr)
            IN  IF ~value.ok THEN value ELSE unary_type(node.op, value.val)
      [] node.k = "AsOp" ->
            LET value == expr_check(variables, cs, node.expr)
            IN  IF ~value.ok THEN value ELSE as_type(node.op, value.val)
      [] node.k = "BinaryOp" ->
            LET left == expr_check(variables, cs, node.left)
                right == expr_check(variables, cs, node.right)
            IN  IF ~left.ok THEN left
                ELSE IF ~right.ok THEN right
                ELSE binary_type(node.op, left.val, right.val)
      [] OTHER -> Err("A15")

\* The allowed (target, value) type pairs of an assignment operator.
assign_check(op, type_, value) ==
    CASE op.tok = "Assign" -> IF type_ # value THEN Err("A43") ELSE Ok(TRUE)
      [] op.tok = "PlusAssign" ->
            IF type_ = value /\ type_ \in {"String", "Number", "Float"}
            THEN Ok(TRUE) ELSE Err("A16")
      [] op.tok \in {"MinusAssign", "DivideAssign"} ->
            IF type_ = value /\ type_ \in {"Number", "Float"} THEN Ok(TRUE) ELSE Err("A16")
      [] op.tok = "MultiplyAssign" ->
            IF <<type_, value>> \in
                 {<<"String", "Number">>, <<"Number", "Number">>, <<"Float", "Float">>}
            THEN Ok(TRUE) ELSE Err("A16")
      [] op.tok = "ModAssign" ->
            IF type_ = "Number" /\ value = "Number" THEN Ok(TRUE) ELSE Err("A16")

\* The type of a call argument token.
arg_type(variables, cs, arg) ==
    CASE arg.tok = "Ident" -> expr_check(variables, cs, Ident(arg.name))
      [] arg.tok = "NumberValue" -> Ok("Number")
      [] arg.tok = "FloatValue" -> Ok("Float")
      [] arg.tok = "StringValue" -> Ok("String")
      [] arg.tok = "BooleanValue" -> Ok("Boolean")

\* The loop over the arguments of a call: the first failure, if any.
RECURSIVE args_check(_, _, _, _, _)
args_check(variables, cs, args, proc, i) ==
    IF i > Len(args) THEN Ok(TRUE)
    ELSE LET type_ == arg_type(variables, cs, args[i])
         IN  IF ~type_.ok THEN type_
             ELSE IF type_.val # proc[i][2] THEN Err("A42")
             ELSE args_check(variables, cs, args, proc, i + 1)

\* The result of main_check: Ok or Err, with the symbol table as it leaves it.
Checked(variables) == [ok |-> TRUE, err |-> "", variables |-> variables]

Rejected(e, variables) == [ok |-> FALSE, err |-> e, variables |-> variables]

RECURSIVE main_check(_, _, _, _), body_check(_, _, _, _)
main_check(ps, variables, cs, node) ==
    CASE node.k = "Delete" ->
            IF node.name \in DOMAIN variables
            THEN IF variables[node.name].is_const
                 THEN Rejected("A28", MapRemove(variables, node.name))
                 ELSE Checked(MapRemove(variables, node.name))
            ELSE Rejected("A03", variables)
      [] node.k = "VarDecl" ->
            LET real_type == expr_check(variables, cs, node.value)
                inserted == MapInsert(variables, node.name,
                                      [type_ |-> node.type_, is_const |-> node.is_const])
            IN  IF ~real_type.ok THEN Rejected(real_type.err, variables)
                ELSE IF node.type_ = real_type.val
                THEN IF node.name \in DOMAIN variables
                     THEN Rejected("A07", inserted)
                     ELSE Checked(inserted)
                ELSE Rejected("A43", variables)
      [] node.k = "Assign" ->
            IF node.name \in DOMAIN variables
            THEN IF ~variables[node.name].is_const
                 THEN LET value == expr_check(variables, cs, node.expr)
                      IN  IF ~value.ok THEN Rejected(value.err, variables)
                          ELSE LET r == assign_check(node.op, variables[node.name].type_,
                                                     value.val)
                               IN  IF r.ok THEN Checked(variables)
                                   ELSE Rejected(r.err, variables)
                 ELSE Rejected("A07", variables)
            ELSE Rejected("A03", variables)
      [] node.k = "ProcCall" ->
            IF node.name \in DOMAIN ps
            THEN IF Len(node.args) # Len(ps[node.name])
                 THEN Rejected("A27", variables)
                 ELSE LET r == args_check(variables, cs, node.args, ps[node.name], 1)
                      IN  IF r.ok THEN Checked(variables) ELSE Rejected(r.err, variables)
            ELSE Rejected("A24", variables)
      [] node.k = "Condition" ->
            LET c == expr_check(variables, cs, node.expr)
            IN  IF ~c.ok THEN Rejected(c.err, variables)
                ELSE IF c.val = "Boolean"
                THEN LET y == body_check(ps, variables, cs, node.yes)
                     IN  IF ~y.ok THEN y
                         ELSE IF ~node.no.some THEN y
                         ELSE IF node.no.v.else_k = "ElseIf"
                         THEN main_check(ps, y.variables, cs, node.no.v.node.kind)
                         ELSE body_check(ps, y.variables, cs, node.no.v.nodes)
                ELSE Rejected("A15", variables)
      [] node.k = "While" ->
            LET c == expr_check(variables, cs, node.expr)
            IN  IF ~c.ok THEN Rejected(c.err, variables)
                ELSE IF c.val = "Boolean" THEN body_check(ps, variables, cs, node.body)
                ELSE Rejected("A15", variables)
      [] node.k = "For" ->
            LET s == expr_check(variables, cs, node.start)
                e == expr_check(variables, cs, node.end)
                st == expr_check(variables, cs, node.step.v)
            IN  IF ~s.ok THEN Rejected(s.err, variables)
                ELSE IF s.val \notin {"Float", "Number"} THEN Rejected("A15", variables)
                ELSE IF ~e.ok THEN Rejected(e.err, variables)
                ELSE IF e.val \notin {"Float", "Number"} THEN Rejected("A15", variables)
                ELSE IF node.step.some /\ ~st.ok THEN Rejected(st.err, variables)
                ELSE IF node.step.some /\ st.val \notin {"Float", "Number"}
                THEN Rejected("A15", variables)
                ELSE body_check(ps, variables, cs, node.body)
      [] OTHER -> Checked(variables)

\* `for node in body { main_check(procs, variables, consts, &node.kind)?; }`
body_check(ps, variables, cs, body) ==
    IF body = <<>> THEN Checked(variables)
    ELSE LET r == main_check(ps, variables, cs, Head(body).kind)
         IN  IF ~r.ok THEN r ELSE body_check(ps, r.variables, cs, Tail(body))

\* A diagnostic handed to show_error, or none.
Accepted == [ok |-> TRUE, err |-> "", line |-> -1]

Fatal(e, line) == [ok |-> FALSE, err |-> e, line |-> line]

\* The symbol table of a procedure, seeded with its parameters.
RECURSIVE seed_args(_, _)
seed_args(variables, args) ==
    IF args = <<>> THEN variables
    ELSE seed_args(MapInsert(variables, Head(args)[1],
                             [type_ |-> Head(args)[2], is_const |-> FALSE]),
                   Tail(args))

\* The loop of check_types over a procedure body: the first failing statement.
RECURSIVE proc_check(_, _, _, _)
proc_check(ps, variables, cs, body) ==
    IF body = <<>> THEN Accepted
    ELSE LET r == main_check(ps, variables, cs, Head(body).kind)
         IN  IF ~r.ok THEN Fatal(r.err, Head(body).line)
             ELSE proc_check(ps, r.variables, cs, Tail(body))

\* The first loop of check_types: the procedure table, or A38 on a duplicate.
RECURSIVE collect_procs(_, _)
collect_procs(nodes, ps) ==
    IF nodes = <<>> THEN [ok |-> TRUE, err |-> "", line |-> -1, procs |-> ps]
    ELSE LET node == Head(nodes)
         IN  IF node.kind.k = "Proc"
             THEN IF node.kind.name \in DOMAIN ps
                  THEN [ok |-> FALSE, err |-> "A38", line |-> node.line, procs |-> ps]
                  ELSE collect_procs(Tail(nodes),
                                     MapInsert(ps, node.kind.name, node.kind.args))
             ELSE collect_procs(Tail(nodes), ps)

\* The second loop of check_types: constants are entered as the loop meets
\* them, and each procedure body is checked against those met so far.
RECURSIVE check_items(_, _, _)
check_items(nodes, ps, cs) ==
    IF nodes = <<>> THEN Accepted
    ELSE LET node == Head(nodes)
         IN  IF node.kind.k = "VarDecl"
             THEN IF node.kind.name \in DOMAIN cs
                  THEN Fatal("A37", node.line)
                  ELSE check_items(Tail(nodes), ps,
                                   MapInsert(cs, node.kind.name, node.kind.type_))
             ELSE LET r == proc_check(ps, seed_args(EmptyMap, node.kind.args), cs,
                                      node.kind.body)
                  IN  IF ~r.ok THEN r ELSE check_items(Tail(nodes), ps, cs)

check_types(nodes) ==
    LET p == collect_procs(nodes, EmptyMap)
    IN  IF ~p.ok THEN Fatal(p.err, p.line) ELSE check_items(nodes, p.procs, EmptyMap)

\* ---------------------------------------------------------------- compiler

Ins(op) == [op |-> op]

Push(value) == [op |-> "Push", value |-> value]

Load(name) == [op |-> "Load", name |-> name]

StoreLocal(name) == [op |-> "StoreLocal", name |-> name]

StoreConst(name) == [op |-> "StoreConst", name |-> name]

InsDelete(name) == [op |-> "Delete", name |-> name]

InsExit(code) == [op |-> "Exit", code |-> code]

Call(name, argc) == [op |-> "Call", name |-> name, argc |-> argc]

\* The instruction of a unary operator token.
unary_inst(op) ==
    CASE op.tok = "Not" -> Ok(Ins("Not"))
      [] op.tok = "Minus" -> Ok(Ins("Neg"))
      [] OTHER -> Err("A15")

\* The instruction of a conversion target.
cast_inst(op) ==
    CASE op = "String" -> Ins("CastToString")
      [] op = "Number" -> Ins("CastToNumber")
      [] op = "Float" -> Ins("CastToFloat")
      [] op = "Boolean" -> Ins("CastToBoolean")
      [] op = "Sqrt" -> Ins("Sqrt")
      [] op = "Sin" -> Ins("Sin")
      [] op = "Cos" -> Ins("Cos")

BinaryToks ==
    {"Or", "And", "Equal", "NotEqual", "Greater", "Less", "GreaterEqual", "LessEqual",
     "Plus", "Minus", "Multiply", "Divide", "Mod"}

\* The instruction of a binary operator token: it carries the token's name.
binary_inst(op) == IF op.tok \in BinaryToks THEN Ok(Ins(op.tok)) ELSE Err("unreachable")

\* The operands of a binary node in source order.
binary_operands_in_order(left, right) == <<left, right>>

\* The operands of a binary node in the order their code is emitted: the
\* right operand first, then the left.
binary_operands(left, right) == <<right, left>>

\* expr_compile appends the code of an expression to `instructions`.
RECURSIVE expr_compile(_, _)
expr_compile(instructions, value) ==
    CASE value.k = "UnaryOp" ->
            LET e == expr_compile(instructions, value.expr)
                i == unary_inst(value.op)
            IN  IF ~e.ok THEN e
                ELSE IF ~i.ok THEN i
                ELSE Ok(Append(e.val, i.val))
      [] value.k = "AsOp" ->
            LET e == expr_compile(instructions, value.expr)
            IN  IF ~e.ok THEN e ELSE Ok(Append(e.val, cast_inst(value.op)))
      [] value.k = "BinaryOp" ->
            LET order == binary_operands(value.left, value.right)
                r == expr_compile(instructions, order[1])
                l == expr_compile(r.val, order[2])
                i == binary_inst(value.op)
            IN  IF ~r.ok THEN r
                ELSE IF ~l.ok THEN l
                ELSE IF ~i.ok THEN i
                ELSE Ok(Append(l.val, i.val))
      [] value.k = "Ident" -> Ok(Append(instructions, Load(value.name)))
      [] value.k = "Number" -> Ok(Append(instructions, Push(TNumber(value.num))))
      [] value.k = "String" -> Ok(Append(instructions, Push(TString(value.str))))
      [] value.k = "Boolean" -> Ok(Append(instructions, Push(TBoolean(value.bool))))
      [] OTHER -> Err("unreachable")

var_compile(name, value, is_const) ==
    LET e == expr_compile(<<>>, value)
    IN  IF ~e.ok THEN e
        ELSE IF is_const THEN Ok(Append(e.val, StoreConst(name)))
        ELSE Ok(Append(e.val, StoreLocal(name)))

\* The instruction that pushes a call argument token.
arg_inst(arg) ==
    CASE arg.tok = "Ident" -> Load(arg.name)
      [] arg.tok = "NumberValue" -> Push(TNumber(arg.num))
      [] arg.tok = "StringValue" -> Push(TString(arg.str))
      [] arg.tok = "BooleanValue" -> Push(TBoolean(arg.bool))

\* The pushes of the arguments, first argument first.
args_compile_in_order(args) == [i \in 1..Len(args) |-> arg_inst(args[i])]

\* `for arg in args.iter().rev()`: the pushes of the arguments, last argument first.
RECURSIVE args_compile(_)
args_compile(args) ==
    IF args = <<>> THEN <<>>
    ELSE <<arg_inst(args[Len(args)])>> \o args_compile(SubSeq(args, 1, Len(args) - 1))

\* The arithmetic instruction of a compound assignment operator.
assign_inst(op) ==
    CASE op.tok = "PlusAssign" -> Ins("Plus")
      [] op.tok = "MinusAssign" -> Ins("Minus")
      [] op.tok = "MultiplyAssign" -> Ins("Multiply")
      [] op.tok = "DivideAssign" -> Ins("Divide")
      [] op.tok = "ModAssign" -> Ins("Mod")

\* The code of an assignment without the load of the target.
assign_compile_unloaded(instructions, name, op, expr) ==
    LET e == expr_compile(instructions, expr)
    IN  IF ~e.ok THEN e
        ELSE IF op.tok = "Assign" THEN Ok(Append(e.val, StoreLocal(name)))
        ELSE Ok(e.val \o <<assign_inst(op), StoreLocal(name)>>)

\* The code of an assignment: the target is loaded first, then the expression.
assign_compile(instructions, name, op, expr) ==
    LET e == expr_compile(Append(instructions, Load(name)), expr)
    IN  IF ~e.ok THEN e
        ELSE IF op.tok = "Assign" THEN Ok(Append(e.val, StoreLocal(name)))
        ELSE IF op.tok \in {"PlusAssign", "MinusAssign", "MultiplyAssign",
                            "DivideAssign", "ModAssign"}
        THEN Ok(e.val \o <<assign_inst(op), StoreLocal(name)>>)
        ELSE Err("unreachable")

\* The three lowering functions whose body is todo!(): calling one panics.
condition_compile(instructions, expr, yes, no) == Err("not yet implemented")

while_compile(instructions, expr, body) == Err("not yet implemented")

for_compile(instructions, var_name, start, end, step, body) == Err("not yet implemented")

main_compile(node, instructions) ==
    CASE node.k = "Echo" ->
            LET e == expr_compile(instructions, node.expr)
            IN  IF ~e.ok THEN e ELSE Ok(Append(e.val, Ins("Echo")))
      [] node.k = "Delete" -> Ok(Append(instructions, InsDelete(node.name)))
      [] node.k = "Exit" -> Ok(Append(instructions, InsExit(node.code)))
      [] node.k = "VarDecl" ->
            LET v == var_compile(node.name, node.value, node.is_const)
            IN  IF ~v.ok THEN v ELSE Ok(instructions \o v.val)
      [] node.k = "ProcCall" ->
            Ok(instructions \o args_compile(node.args)
                            \o <<Call(node.name, Len(node.args))>>)
      [] node.k = "Assign" -> assign_compile(instructions, node.name, node.op, node.expr)
      [] node.k = "Condition" ->
            condition_compile(instructions, node.expr, node.yes, node.no)
      [] node.k = "While" -> while_compile(instructions, node.expr, node.body)
      [] node.k = "For" ->
            for_compile(instructions, node.var_name, node.start, node.end, node.step,
                        node.body)
      [] OTHER -> Err("unreachable")

\* The messages of the panics that are not diagnostics of show_error.
Panics == {"not yet implemented", "unreachable", "panic"}

\* `.map(|inst| Node { instruction: inst, line_number: node.line })`
WithLine(instructions, line) ==
    [i \in 1..Len(instructions) |->
        [instruction |-> instructions[i], line_number |-> line]]

\* The loop of compile over a procedure body: the tape, or the first failure.
RECURSIVE body_compile(_, _)
body_compile(body, proc_body) ==
    IF body = <<>> THEN [ok |-> TRUE, err |-> "", line |-> -1, body |-> proc_body]
    ELSE LET node == Head(body)
             temp == main_compile(node.kind, <<>>)
         IN  IF ~temp.ok
             THEN [ok |-> FALSE, err |-> temp.err, line |-> node.line, body |-> proc_body]
             ELSE body_compile(Tail(body), proc_body \o WithLine(temp.val, node.line))

\* compile: the procedure table and the constant-initializer tape.
RECURSIVE compile_items(_, _, _)
compile_items(nodes, ps, cc) ==
    IF nodes = <<>>
    THEN [ok |-> TRUE, err |-> "", line |-> -1, procs |-> ps, const_code |-> cc]
    ELSE LET node == Head(nodes)
         IN  IF node.kind.k = "VarDecl"
             THEN LET v == var_compile(node.kind.name, node.kind.value, node.kind.is_const)
                  IN  IF ~v.ok
                      THEN [ok |-> FALSE, err |-> v.err, line |-> node.line,
                            procs |-> ps, const_code |-> cc]
                      ELSE compile_items(Tail(nodes), ps, cc \o WithLine(v.val, node.line))
             ELSE LET b == body_compile(node.kind.body, <<>>)
                  IN  IF ~b.ok
                      THEN [ok |-> FALSE, err |-> b.err, line |-> b.line,
                            procs |-> ps, const_code |-> cc]
                      ELSE compile_items(Tail(nodes),
                                         MapInsert(ps, node.kind.name,
                                                   [args |-> node.kind.args, body |-> b.body]),
                                         cc)

compile(nodes) == compile_items(nodes, EmptyMap, <<>>)

\* ---------------------------------------------------------------- virtual machine

\* The deepest nesting of activations the model follows.
MaxDepth == 3

\* The lines the model's standard input can deliver to `input`.
StdinLines == {<<"7">>}

\* The constant frame before const_init runs: PI, TAU, E and SQRT_2.
SeededConsts ==
    ScopeDeclare(ScopeDeclare(ScopeDeclare(ScopeDeclare(ScopeNew,
        "PI", TFloat(3142), TRUE), "TAU", TFloat(6283), TRUE),
        "E", TFloat(2718), TRUE), "SQRT_2", TFloat(1414), TRUE)

Frame(name, tape, locals) ==
    [name |-> name, tape |-> tape, ip |-> 0, locals |-> locals, stack |-> <<>>]

Top == frames[Len(frames)]

AtInstruction ==
    /\ phase \in {"const_init", "run"}
    /\ frames # <<>>
    /\ Top.ip < Len(Top.tape)

Cur == Top.tape[Top.ip + 1]

CurOp == Cur.instruction.op

\* The stack without its n topmost values.
Drop(stack, n) == SubSeq(stack, 1, Len(stack) - n)

\* The i-th value from the top of the stack: Peek(stack, 1) is the top.
Peek(stack, i) == stack[Len(stack) - i + 1]

\* The frames after the current one has run an instruction that leaves it
\* with `locals` and `stack`: ip advances by one.
Stepped(locals, stack) ==
    [frames EXCEPT ![Len(frames)] =
        [@ EXCEPT !.ip = @ + 1, !.locals = locals, !.stack = stack]]

\* An op returned Err: the program aborts with the instruction's line.
Abort(code) ==
    /\ phase' = (IF code \in Panics THEN "panic" ELSE "error")
    /\ error' = [code |-> code, line |-> Cur.line_number]
    /\ exit_code' = 101
    /\ UNCHANGED <<ast, procs, const_code, consts, frames, out, tokens, handler, parser, tree>>

Continue(newFrames, newOut) ==
    /\ frames' = newFrames
    /\ out' = newOut
    /\ UNCHANGED <<ast, phase, procs, const_code, consts, error, exit_code, tokens, handler, parser, tree>>

EchoLine(text) == [kind |-> "echo", text |-> text]

WarningLine(code) == [kind |-> "warning", text |-> code]

\* The result of a binary instruction on a, popped first, and b, popped second.
binary_op(op, a, b) ==
    CASE op = "Plus" -> types_add(a, b)
      [] op = "Minus" -> types_sub(a, b)
      [] op = "Multiply" -> types_mul(a, b)
      [] op = "Divide" -> types_div(a, b)
      [] op = "Mod" -> types_rem(a, b)
      [] op = "Equal" -> Ok(TBoolean(types_cmp(a, b) = 0))
      [] op = "NotEqual" -> Ok(TBoolean(types_cmp(a, b) # 0))
      [] op = "Greater" -> Ok(TBoolean(types_cmp(a, b) > 0))
      [] op = "Less" -> Ok(TBoolean(types_cmp(a, b) < 0))
      [] op = "GreaterEqual" -> Ok(TBoolean(types_cmp(a, b) >= 0))
      [] op = "LessEqual" -> Ok(TBoolean(types_cmp(a, b) <= 0))
      [] op = "And" ->
            IF as_bool(a).ok /\ as_bool(b).ok THEN Ok(TBoolean(a.val /\ b.val))
            ELSE Err("A16")
      [] op = "Or" ->
            IF as_bool(a).ok /\ as_bool(b).ok THEN Ok(TBoolean(a.val \/ b.val))
            ELSE Err("A16")

UnaryOps == {"Neg", "Not", "CastToString", "CastToNumber", "CastToBoolean"}

\* The result of a unary or cast instruction on the popped value.
unary_op(op, a) ==
    CASE op = "Neg" ->
            IF as_number(a).ok THEN [ok |-> TRUE, val |-> TNumber(-a.val), warning |-> ""]
            ELSE Err("A16")
      [] op = "Not" ->
            IF as_bool(a).ok THEN [ok |-> TRUE, val |-> TBoolean(~a.val), warning |-> ""]
            ELSE Err("A16")
      [] op = "CastToString" -> convert_to_string(a)
      [] op = "CastToNumber" -> convert_to_number(a)
      [] op = "CastToBoolean" -> convert_to_bool(a)

\* The local frame of a callee: params[i] is bound to popped[i].
RECURSIVE bind_params(_, _, _, _)
bind_params(locals, params, popped, i) ==
    IF i > Len(params) THEN locals
    ELSE bind_params(ScopeDeclare(locals, params[i][1], popped[i], FALSE),
                     params, popped, i + 1)

\* The argc values popped for a call, in the order they are popped.
popped_args(stack, argc) == [i \in 1..argc |-> Peek(stack, i)]

\* A call pushes a fresh activation: a new local frame and an empty stack.
callee_frame(name, proc, popped) ==
    Frame(name, proc.body, bind_params(ScopeNew, proc.args, popped, 1))

\* The caller resumes in the local frame the callee leaves behind.
returned_in_callee_frame(fs) ==
    [i \in 1..(Len(fs) - 1) |->
        IF i = Len(fs) - 1
        THEN [fs[i] EXCEPT !.ip = @ + 1, !.locals = fs[Len(fs)].locals]
        ELSE fs[i]]

\* The frames once the innermost activation has ended: the caller resumes
\* at the instruction after its Call.
returned(fs) ==
    [i \in 1..(Len(fs) - 1) |->
        IF i = Len(fs) - 1 THEN [fs[i] EXCEPT !.ip = @ + 1] ELSE fs[i]]

\* A validator whose diagnostic does not end the process.
Validate_continuing ==
    /\ phase = "validate"
    /\ LET r == check_types(ast)
       IN  IF r.ok
           THEN UNCHANGED <<error, exit_code>>
           ELSE error' = [code |-> r.err, line |-> r.line] /\ exit_code' = 101
    /\ phase' = "compile"
    /\ UNCHANGED <<ast, procs, const_code, consts, frames, out, tokens, handler, parser, tree>>

Validate ==
    /\ phase = "validate"
    /\ LET r == check_types(ast)
       IN  IF r.ok
           THEN /\ phase' = "compile"
                /\ UNCHANGED <<error, exit_code>>
           ELSE /\ phase' = "error"
                /\ error' = [code |-> r.err, line |-> r.line]
                /\ exit_code' = 101
    /\ UNCHANGED <<ast, procs, const_code, consts, frames, out, tokens, handler, parser, tree>>

Compile ==
    /\ phase = "compile"
    /\ LET r == compile(ast)
       IN  IF r.ok
           THEN /\ phase' = "const_init"
                /\ procs' = r.procs
                /\ const_code' = r.const_code
                /\ frames' = <<Frame("const_init", r.const_code, SeededConsts)>>
                /\ UNCHANGED <<error, exit_code>>
           ELSE /\ phase' = (IF r.err \in Panics THEN "panic" ELSE "error")
                /\ error' = [code |-> r.err, line |-> r.line]
                /\ exit_code' = 101
                /\ UNCHANGED <<procs, const_code, frames>>
    /\ UNCHANGED <<ast, consts, out, tokens, handler, parser, tree>>

\* The const_init tape has ended: its frame is the constant frame, and main
\* starts in an empty local frame.
StartMain ==
    /\ phase = "const_init"
    /\ Top.ip = Len(Top.tape)
    /\ consts' = Top.locals
    /\ IF "main" \in DOMAIN procs
       THEN /\ phase' = "run"
            /\ frames' = <<Frame("main", procs["main"].body, ScopeNew)>>
            /\ UNCHANGED <<error, exit_code>>
       ELSE /\ phase' = "error"
            /\ error' = [code |-> "A22", line |-> -1]
            /\ exit_code' = 101
            /\ UNCHANGED frames
    /\ UNCHANGED <<ast, procs, const_code, out, tokens, handler, parser, tree>>

VmPush ==
    /\ AtInstruction
    /\ CurOp = "Push"
    /\ Continue(Stepped(Top.locals, Append(Top.stack, Cur.instruction.value)), out)

VmLoad ==
    /\ AtInstruction
    /\ CurOp = "Load"
    /\ LET name == Cur.instruction.name
           found == ScopeGet(Top.locals, consts, name)
       IN  IF name = "input"
           THEN \E line \in StdinLines :
                    Continue(Stepped(Top.locals, Append(Top.stack, TString(line))), out)
           ELSE IF found.ok
           THEN Continue(Stepped(Top.locals, Append(Top.stack, found.val.value)), out)
           ELSE Abort("A03")

VmStoreLocal ==
    /\ AtInstruction
    /\ CurOp = "StoreLocal"
    /\ IF Top.stack = <<>> THEN Abort("A15")
       ELSE Continue(Stepped(ScopeDeclare(Top.locals, Cur.instruction.name,
                                          Peek(Top.stack, 1), FALSE),
                             Drop(Top.stack, 1)), out)

VmStoreConst ==
    /\ AtInstruction
    /\ CurOp = "StoreConst"
    /\ IF ScopeExist(Top.locals, Cur.instruction.name) THEN Abort("A07")
       ELSE IF Top.stack = <<>> THEN Abort("A15")
       ELSE Continue(Stepped(ScopeDeclare(Top.locals, Cur.instruction.name,
                                          Peek(Top.stack, 1), TRUE),
                             Drop(Top.stack, 1)), out)

VmDelete ==
    /\ AtInstruction
    /\ CurOp = "Delete"
    /\ LET name == Cur.instruction.name
           found == ScopeGet(Top.locals, consts, name)
       IN  IF found.ok /\ found.val.is_const THEN Abort("A28")
           ELSE IF ~ScopeExist(Top.locals, name) THEN Abort("A03")
           ELSE Continue(Stepped(ScopeRemove(Top.locals, name), Top.stack), out)

VmBinary ==
    /\ AtInstruction
    /\ CurOp \in BinaryToks
    /\ IF Len(Top.stack) < 2 THEN Abort("A15")
       ELSE LET a == Peek(Top.stack, 1)
                b == Peek(Top.stack, 2)
                r == binary_op(CurOp, a, b)
            IN  IF r.ok
                THEN Continue(Stepped(Top.locals, Append(Drop(Top.stack, 2), r.val)), out)
                ELSE Abort(r.err)

VmUnary ==
    /\ AtInstruction
    /\ CurOp \in UnaryOps
    /\ IF Top.stack = <<>> THEN Abort("A15")
       ELSE LET r == unary_op(CurOp, Peek(Top.stack, 1))
            IN  IF r.ok
                THEN Continue(Stepped(Top.locals, Append(Drop(Top.stack, 1), r.val)),
                              IF r.warning = "" THEN out
                              ELSE Append(out, WarningLine(r.warning)))
                ELSE Abort(r.err)

VmEcho ==
    /\ AtInstruction
    /\ CurOp = "Echo"
    /\ IF Top.stack = <<>> THEN Abort("A15")
       ELSE Continue(Stepped(Top.locals, Drop(Top.stack, 1)),
                     Append(out, EchoLine(Display(Peek(Top.stack, 1)))))

VmCall ==
    /\ AtInstruction
    /\ CurOp = "Call"
    /\ Len(frames) < MaxDepth
    /\ LET name == Cur.instruction.name
           argc == Cur.instruction.argc
       IN  IF name \notin DOMAIN procs THEN Abort("A24")
           ELSE IF Len(Top.stack) < argc \/ argc # Len(procs[name].args)
           THEN Abort("A27")
           ELSE Continue(
                    Append([frames EXCEPT ![Len(frames)].stack = Drop(@, argc)],
                           callee_frame(name, procs[name], popped_args(Top.stack, argc))),
                    out)

VmReturn ==
    /\ phase = "run"
    /\ Len(frames) > 1
    /\ Top.ip = Len(Top.tape)
    /\ Continue(returned(frames), out)

VmExit ==
    /\ AtInstruction
    /\ CurOp = "Exit"
    /\ phase' = "exit"
    /\ exit_code' = Cur.instruction.code
    /\ UNCHANGED <<ast, procs, const_code, consts, frames, out, error, tokens, handler, parser, tree>>

\* The tape of main has ended.
Finish ==
    /\ phase = "run"
    /\ Len(frames) = 1
    /\ Top.ip = Len(Top.tape)
    /\ phase' = "done"
    /\ exit_code' = 0
    /\ UNCHANGED <<ast, procs, const_code, consts, frames, out, error, tokens, handler, parser, tree>>

\* ---------------------------------------------------------------- parser

\* Parser::current_token on a token line: None past its end.
current_token(toks, pos) == IF pos < Len(toks) THEN Some(toks[pos + 1]) ELSE None

\* Whether the current token is the token t.
IsTok(cur, t) == cur.some /\ cur.v.tok = t

\* Parser::precedence.
precedence(tok) ==
    CASE tok.tok = "Or" -> Some(1)
      [] tok.tok = "And" -> Some(2)
      [] tok.tok \in {"Equal", "NotEqual", "Greater", "Less", "GreaterEqual", "LessEqual"} ->
            Some(3)
      [] tok.tok \in {"Plus", "Minus"} -> Some(4)
      [] tok.tok \in {"Multiply", "Divide", "Mod"} -> Some(5)
      [] tok.tok = "As" -> Some(7)
      [] OTHER -> None

\* A right operand parsed at the operator's own level.
right_operand_prec_same(prec) == prec

\* The level at which the right operand of an operator of level prec is parsed.
right_operand_prec(prec) == prec + 1

\* The conversion an identifier names as the right operand of `as`.
cast_of(name) ==
    CASE name = "string" -> Some("String")
      [] name = "number" -> Some("Number")
      [] name = "float" -> Some("Float")
      [] name = "bool" -> Some("Boolean")
      [] name = "sin" -> Some("Sin")
      [] name = "cos" -> Some("Cos")
      [] name = "sqrt" -> Some("Sqrt")
      [] OTHER -> None

\* A parsed expression and the cursor after it.
Parsed(node, pos) == [ok |-> TRUE, node |-> node, pos |-> pos]

\* The node of a token that is an operand by itself, if it is one.
operand_of(tok) ==
    CASE tok.tok = "Ident" -> Some(Ident(tok.name))
      [] tok.tok = "Number" -> Some(Ident("number"))
      [] tok.tok = "Float" -> Some(Ident("float"))
      [] tok.tok = "String" -> Some(Ident("string"))
      [] tok.tok = "Bool" -> Some(Ident("bool"))
      [] tok.tok = "NumberValue" -> Some(AstNumber(tok.num))
      [] tok.tok = "StringValue" -> Some(AstString(tok.str))
      [] tok.tok = "BooleanValue" -> Some(AstBoolean(tok.bool))
      [] OTHER -> None

RECURSIVE parse_expr(_, _, _), parse_operators(_, _, _, _)

\* A unary operand that takes every operator that follows it.
unary_operand_loose(toks, pos) == parse_expr(toks, pos, 0)

\* The operand of a unary operator, parsed from position pos.
unary_operand(toks, pos) == parse_expr(toks, pos, 6)

parse_expr(toks, pos, min_prec) ==
    LET cur == current_token(toks, pos)
    IN  IF ~cur.some THEN Err("A15")
        ELSE IF cur.v.tok \in {"Minus", "Not"}
        THEN LET expr == unary_operand(toks, pos + 1)
             IN  IF ~expr.ok THEN expr
                 ELSE parse_operators(toks, expr.pos, UnaryOp(cur.v, expr.node), min_prec)
        ELSE IF cur.v.tok = "OpenParen"
        THEN LET expr == parse_expr(toks, pos + 1, 0)
             IN  IF ~expr.ok THEN expr
                 ELSE IF IsTok(current_token(toks, expr.pos), "CloseParen")
                 THEN parse_operators(toks, expr.pos + 1, expr.node, min_prec)
                 ELSE Err("A10")
        ELSE IF operand_of(cur.v).some
        THEN parse_operators(toks, pos + 1, operand_of(cur.v).v, min_prec)
        ELSE Err("A15")

\* The loop of parse_expr: it folds the operators of level min_prec or
\* tighter that follow `left` into it.
parse_operators(toks, pos, left, min_prec) ==
    LET cur == current_token(toks, pos)
        prec == IF cur.some THEN precedence(cur.v) ELSE None
    IN  IF ~prec.some \/ prec.v < min_prec THEN Parsed(left, pos)
        ELSE LET right == parse_expr(toks, pos + 1, right_operand_prec(prec.v))
             IN  IF ~right.ok THEN right
                 ELSE IF cur.v.tok = "As"
                 THEN IF right.node.k = "Ident" /\ cast_of(right.node.name).some
                      THEN parse_operators(toks, right.pos,
                                           AsOp(left, cast_of(right.node.name).v), min_prec)
                      ELSE Err("A15")
                 ELSE parse_operators(toks, right.pos,
                                      BinaryOp(left, cur.v, right.node), min_prec)

\* An i64 too wide for one machine integer of the model: hi * 2^31 + lo,
\* with 0 <= lo < 2^31.
I64(hi, lo) == [hi |-> hi, lo |-> lo]


\* `code as i32`: the low 32 bits of the i64, read as a signed number.
as_i32(code) == IF code.hi % 2 = 1 THEN code.lo - 2147483647 - 1 ELSE code.lo

\* The Exit arm of parse_main over a token line that starts with `exit`.
parse_exit(toks) ==
    IF Len(toks) >= 2 /\ toks[2].tok = "NumberValue"
    THEN Ok(Exit(as_i32(toks[2].num)))
    ELSE Err("A26")

IsLiteral(node) == node.k \in {"Number", "Float", "String", "Boolean"}

\* The loop of parse_value over the members that follow the first of a list.
RECURSIVE parse_members(_, _)
parse_members(toks, pos) ==
    IF IsTok(current_token(toks, pos), "Comma")
    THEN LET new == parse_expr(toks, pos + 1, 0)
         IN  IF ~new.ok THEN new
             ELSE IF ~IsLiteral(new.node) THEN Err("A19")
             ELSE parse_members(toks, new.pos)
    ELSE IF current_token(toks, pos).some THEN Err("A15")
    ELSE Err("not yet implemented")

parse_value(toks, pos) ==
    LET first == parse_expr(toks, pos, 0)
        cur == IF first.ok THEN current_token(toks, first.pos) ELSE None
    IN  IF ~first.ok THEN first
        ELSE IF ~IsTok(cur, "Comma")
        THEN IF cur.some /\ cur.v.tok \notin {"To", "Step"} THEN Err("A15") ELSE first
        ELSE IF ~IsLiteral(first.node) THEN Err("A19")
        ELSE parse_members(toks, first.pos)

\* Parser::new: the cursor at the first token of the first line.
ParserNew == [line |-> 0, pos |-> 0]

\* The token line under the cursor, empty past the last line.
row(grid, line) == IF line < Len(grid) THEN grid[line + 1] ELSE <<>>

\* A parsed statement and the cursor line after it; a failure and the cursor
\* line at which it is returned.
Stmt(node, line) == [ok |-> TRUE, node |-> node, line |-> line]

Failed(err, line) == [ok |-> FALSE, err |-> err, line |-> line]

\* The TypesCheck a type keyword names.
type_of(tok) ==
    CASE tok.tok = "Number" -> Some("Number")
      [] tok.tok = "Float" -> Some("Float")
      [] tok.tok = "String" -> Some("String")
      [] tok.tok = "Bool" -> Some("Boolean")
      [] OTHER -> None

IsValueTok(tok) ==
    tok.tok \in {"NumberValue", "FloatValue", "StringValue", "BooleanValue"}

\* The declaration parse_var builds once its value is parsed.
var_stmt(value, line, name, type_, is_const) ==
    IF ~value.ok THEN Failed(value.err, line)
    ELSE Stmt(Node(line, VarDecl(name, type_, value.node, is_const)), line)

\* parse_var after the optional `const`: type, name, `=` and the value.
var_from(toks, line, pos, is_const, type_, name) ==
    IF ~type_.some THEN Failed("A15", line)
    ELSE IF ~IsTok(name, "Ident") THEN Failed("A15", line)
    ELSE IF name.v.name = "" THEN Failed("A05", line)
    ELSE IF ~IsTok(current_token(toks, pos + 2), "Assign") THEN Failed("A04", line)
    ELSE var_stmt(parse_value(toks, pos + 3), line, name.v.name, type_.v, is_const)

\* The type keyword at a position of a line, if there is one.
type_at(toks, pos) ==
    IF pos < Len(toks) THEN type_of(toks[pos + 1]) ELSE None

\* Parser::parse_var on the line under the cursor.
parse_var(grid, line) ==
    IF IsTok(current_token(row(grid, line), 0), "Const")
    THEN var_from(row(grid, line), line, 1, TRUE,
                  type_at(row(grid, line), 1), current_token(row(grid, line), 2))
    ELSE var_from(row(grid, line), line, 0, FALSE,
                  type_at(row(grid, line), 0), current_token(row(grid, line), 1))

\* The argument loop of parse_proc: `name : type` until the line ends.
RECURSIVE parse_args(_, _, _)
parse_args(toks, pos, args) ==
    IF pos >= Len(toks) THEN Ok(args)
    ELSE IF ~IsTok(current_token(toks, pos), "Ident") THEN Err("A15")
    ELSE IF ~IsTok(current_token(toks, pos + 1), "Colon") THEN Err("A15")
    ELSE IF ~type_at(toks, pos + 2).some THEN Err("A15")
    ELSE parse_args(toks, pos + 3,
                    Append(args, <<toks[pos + 1].name, type_at(toks, pos + 2).v>>))

\* The node of a block once its header and its body are parsed; it takes
\* the line of the closing keyword.
block_stmt(body, kind) ==
    IF ~body.ok THEN body ELSE Stmt(Node(body.line, kind), body.line)

RECURSIVE parse_main(_, _, _), parse_body(_, _, _, _), body_next(_, _, _, _)

\* The body loop of a block: statements are parsed, one line after another,
\* until the token under the cursor is one of `closers`.  Past the last
\* line there is no token, and parse_main is called once more.
parse_body(grid, line, closers, body) ==
    IF line < Len(grid) /\ grid[line + 1] # <<>> /\ grid[line + 1][1].tok \in closers
    THEN [ok |-> TRUE, nodes |-> body, line |-> line]
    ELSE body_next(grid, closers, body, parse_main(grid, line, 0))

\* One turn of the body loop: the statement r joins the body and the cursor
\* moves to the next line, or the failure r ends the loop.
body_next(grid, closers, body, r) ==
    IF ~r.ok THEN r ELSE parse_body(grid, r.line + 1, closers, Append(body, r.node))

\* The While node once its body is parsed.
while_body(expr, body) ==
    IF ~body.ok THEN body ELSE Stmt(Node(body.line, While(expr.node, body.nodes)), body.line)

\* The While arm once the condition is parsed.
while_stmt(grid, line, expr) ==
    IF ~expr.ok THEN Failed(expr.err, line)
    ELSE while_body(expr, parse_body(grid, line + 1, {"EndWhile"}, <<>>))

\* The For arm: the bounds, the optional step, then the body.
for_body(name, start, end, step, body) ==
    IF ~body.ok THEN body
    ELSE Stmt(Node(body.line, For(name, start.node, end.node, step, body.nodes)), body.line)

for_step(grid, line, name, start, end, step) ==
    IF ~step.ok THEN Failed(step.err, line)
    ELSE for_body(name, start, end, Some(step.node),
                  parse_body(grid, line + 1, {"EndFor"}, <<>>))

for_end(grid, line, toks, name, start, end) ==
    IF ~end.ok THEN Failed(end.err, line)
    ELSE IF IsTok(current_token(toks, end.pos), "Step")
    THEN for_step(grid, line, name, start, end, parse_value(toks, end.pos + 1))
    ELSE for_body(name, start, end, None, parse_body(grid, line + 1, {"EndFor"}, <<>>))

for_start(grid, line, toks, name, start) ==
    IF ~start.ok THEN Failed(start.err, line)
    ELSE IF ~IsTok(current_token(toks, start.pos), "To") THEN Failed("A15", line)
    ELSE for_end(grid, line, toks, name, start, parse_value(toks, start.pos + 1))

\* The If arm: the branch, then what follows its closing token.
if_else(expr, yes, no) ==
    IF ~no.ok THEN no
    ELSE Stmt(Node(no.line, Condition(expr.node, yes.nodes, Some(Else(no.nodes)))), no.line)

if_else_if(expr, yes, nested) ==
    IF ~nested.ok THEN nested
    ELSE Stmt(Node(yes.line, Condition(expr.node, yes.nodes, Some(ElseIf(nested.node)))),
              nested.line)

if_yes(grid, expr, yes) ==
    IF ~yes.ok THEN yes
    ELSE IF IsTok(current_token(row(grid, yes.line), 0), "EndIf")
    THEN Stmt(Node(yes.line, Condition(expr.node, yes.nodes, None)), yes.line)
    ELSE IF IsTok(current_token(row(grid, yes.line), 1), "If")
    THEN if_else_if(expr, yes, parse_main(grid, yes.line, 1))
    ELSE IF current_token(row(grid, yes.line), 1).some THEN Failed("A15", yes.line)
    ELSE if_else(expr, yes, parse_body(grid, yes.line + 1, {"EndIf"}, <<>>))

if_stmt(grid, line, expr) ==
    IF ~expr.ok THEN Failed(expr.err, line)
    ELSE if_yes(grid, expr, parse_body(grid, line + 1, {"EndIf", "Else"}, <<>>))

\* The Exit arm.
exit_stmt(r, line) == IF r.ok THEN Stmt(Node(line, r.val), line) ELSE Failed(r.err, line)

\* The Assign arm once the expression is parsed.
assign_stmt(expr, line, name, op) ==
    IF ~expr.ok THEN Failed(expr.err, line)
    ELSE Stmt(Node(line, Assign(name, op, expr.node)), line)

\* The Echo arm once the expression is parsed.
echo_stmt(value, line) ==
    IF ~value.ok THEN Failed(value.err, line) ELSE Stmt(Node(line, Echo(value.node)), line)

\* The arms of parse_main for the token cur at pos of the line toks.
main_arm(grid, line, toks, pos, cur, next, rest) ==
    CASE cur.tok = "Echo" -> echo_stmt(parse_value(toks, pos + 1), line)
      [] cur.tok = "Delete" ->
            IF IsTok(next, "Ident") THEN Stmt(Node(line, Delete(next.v.name)), line)
            ELSE Failed("A29", line)
      [] cur.tok = "Exit" -> exit_stmt(parse_exit(SubSeq(toks, pos + 1, Len(toks))), line)
      [] cur.tok \in {"Number", "Float", "String", "Bool", "Const"} -> parse_var(grid, line)
      [] cur.tok = "Call" ->
            IF ~IsTok(next, "Ident") THEN Failed("A15", line)
            ELSE IF \E i \in 1..Len(rest) : ~(rest[i].tok = "Ident" \/ IsValueTok(rest[i]))
            THEN Failed("A15", line)
            ELSE Stmt(Node(line, ProcCall(next.v.name, rest)), line)
      [] cur.tok = "While" -> while_stmt(grid, line, parse_value(toks, pos + 1))
      [] cur.tok = "For" ->
            IF ~IsTok(next, "Ident") THEN Failed("A15", line)
            ELSE IF next.v.name = "" THEN Failed("A05", line)
            ELSE IF ~IsTok(current_token(toks, pos + 2), "From") THEN Failed("A15", line)
            ELSE for_start(grid, line, toks, next.v.name, parse_value(toks, pos + 3))
      [] cur.tok = "If" -> if_stmt(grid, line, parse_value(toks, pos + 1))
      [] cur.tok = "Ident" ->
            IF ~next.some THEN Failed("A15", line)
            ELSE IF next.v.tok = "Ident"
            THEN IF \E i \in 1..Len(rest) : ~IsValueTok(rest[i])
                 THEN Failed("A15", line)
                 ELSE Failed("not yet implemented", line)
            ELSE IF next.v.tok \in {"Assign", "PlusAssign", "MinusAssign",
                                    "MultiplyAssign", "DivideAssign", "ModAssign"}
            THEN assign_stmt(parse_value(toks, pos + 2), line, cur.name, next.v)
            ELSE Failed("A15", line)
      [] OTHER -> Failed("A20", line)

\* Parser::parse_main with the cursor at (line, pos).
parse_main(grid, line, pos) ==
    IF pos >= Len(row(grid, line)) THEN Failed("A20", line)
    ELSE main_arm(grid, line, row(grid, line), pos, row(grid, line)[pos + 1],
                  current_token(row(grid, line), pos + 1),
                  SubSeq(row(grid, line), pos + 3, Len(row(grid, line))))

\* The Proc node once its arguments and its body are parsed: the cursor
\* moves past `end`, and the node takes that line.
proc_node(name, args, body, line) ==
    IF ~args.ok THEN Failed(args.err, line)
    ELSE IF ~body.ok THEN body
    ELSE Stmt(Node(body.line + 1, Proc(name, body.nodes, args.val)), body.line + 1)

\* Parser::parse_proc with the cursor at a line that starts with `proc`.
parse_proc(grid, line) ==
    IF ~IsTok(current_token(row(grid, line), 1), "Ident") THEN Failed("A15", line)
    ELSE proc_node(row(grid, line)[2].name, parse_args(row(grid, line), 2, <<>>),
                   parse_body(grid, line + 1, {"End"}, <<>>), line)

\* The result of a top-level constant: the cursor has moved to the next
\* line before the result is returned, a failure included.
const_item(result, line) ==
    IF result.ok THEN Stmt(result.node, line + 1) ELSE Failed(result.err, line + 1)

\* Parser::parse: one top-level item.
parse(grid, line) ==
    IF IsTok(current_token(row(grid, line), 0), "Proc") THEN parse_proc(grid, line)
    ELSE IF IsTok(current_token(row(grid, line), 0), "Const")
    THEN const_item(parse_var(grid, line), line)
    ELSE Failed("A20", line)

\* ---------------------------------------------------------------- programs

\* The number of source lines a statement occupies.
RECURSIVE Span(_), SpanAll(_)
Span(kind) ==
    CASE kind.k \in {"While", "For"} -> 2 + SpanAll(kind.body)
      [] kind.k = "Condition" ->
            IF kind.no.some /\ kind.no.v.else_k = "ElseIf"
            THEN 1 + SpanAll(kind.yes) + Span(kind.no.v.node)
            ELSE 2 + SpanAll(kind.yes)
                   + (IF kind.no.some THEN 1 + SpanAll(kind.no.v.nodes) ELSE 0)
      [] OTHER -> 1

SpanAll(kinds) == IF kinds = <<>> THEN 0 ELSE Span(Head(kinds)) + SpanAll(Tail(kinds))

\* The nodes parse_main builds for statements that start at line `first`: a
\* one-line statement carries its line, a block the line of its closing
\* keyword, and an `if` continued by `else if` the line of that `else if`,
\* where the nested condition starts.
RECURSIVE Lay(_, _)
Lay(kinds, first) ==
    IF kinds = <<>> THEN <<>>
    ELSE LET kind == Head(kinds)
             last == first + Span(kind) - 1
             node ==
                CASE kind.k \in {"While", "For"} ->
                        Node(last, [kind EXCEPT !.body = Lay(kind.body, first + 1)])
                  [] kind.k = "Condition" /\ kind.no.some /\ kind.no.v.else_k = "ElseIf" ->
                        Node(first + 1 + SpanAll(kind.yes),
                             [kind EXCEPT
                                !.yes = Lay(kind.yes, first + 1),
                                !.no = Some(ElseIf(Head(Lay(<<kind.no.v.node>>,
                                                            first + 1 + SpanAll(kind.yes)))))])
                  [] kind.k = "Condition" ->
                        Node(last,
                             [kind EXCEPT
                                !.yes = Lay(kind.yes, first + 1),
                                !.no = IF kind.no.some
                                       THEN Some(Else(Lay(kind.no.v.nodes,
                                                          first + 2 + SpanAll(kind.yes))))
                                       ELSE None])
                  [] OTHER -> Node(first, kind)
         IN  <<node>> \o Lay(Tail(kinds), first + Span(kind))

\* The tree Parser::start builds for a file of top-level constants followed
\* by the procedures f and main: a Proc node carries the line after its `end`.
Program(const_kinds, f_args, f_body, main_body) ==
    LET c == Len(const_kinds)
        f_end == c + 1 + SpanAll(f_body)
        main_end == f_end + 2 + SpanAll(main_body)
    IN  Lay(const_kinds, 0)
        \o <<Node(f_end + 1, Proc("f", Lay(f_body, c + 1), f_args)),
             Node(main_end + 1, Proc("main", Lay(main_body, f_end + 2), <<>>))>>

\* The same file with its constants after the procedures: Parser::start takes
\* the top-level items in the order of the file.
ProgramConstLast(const_kinds, f_args, f_body, main_body) ==
    LET f_end == 1 + SpanAll(f_body)
        main_end == f_end + 2 + SpanAll(main_body)
    IN  <<Node(f_end + 1, Proc("f", Lay(f_body, 1), f_args)),
          Node(main_end + 1, Proc("main", Lay(main_body, f_end + 2), <<>>))>>
        \o Lay(const_kinds, main_end + 1)

\* The same file with other procedure headers: the first procedure is named
\* `first`, the second `second` and takes the parameters `second_args`.
ProgramOf(const_kinds, first, f_args, f_body, second, second_args, main_body) ==
    LET tree_ == Program(const_kinds, f_args, f_body, main_body)
        c == Len(const_kinds)
    IN  [tree_ EXCEPT ![c + 1].kind.name = first,
                      ![c + 2].kind.name = second,
                      ![c + 2].kind.args = second_args]

Num(n) == AstNumber(n)

Str(s) == AstString(s)

X == Ident("x")

TopConsts == <<VarDecl("K", "Number", Num(2), TRUE)>>

FArgs == <<<<"p", "Number">>, <<"q", "Number">>>>

\* The bodies of f: it prints p - q; it reassigns a parameter and declares a
\* local with the caller's name; it declares and deletes locals and calls
\* itself; it declares a constant of its own.
FBodies ==
    { <<Echo(BinaryOp(Ident("p"), Tok("Minus"), Ident("q")))>>,
      <<Assign("p", Tok("Assign"), Ident("q")),
        VarDecl("x", "Number", BinaryOp(Ident("p"), Tok("Plus"), Num(1)), FALSE),
        Echo(X)>>,
      <<VarDecl("x", "String", Str(<<"b">>), FALSE),
        Delete("x"),
        Assign("q", Tok("MinusAssign"), Num(1)),
        ProcCall("f", <<TokIdent("q"), TokIdent("p")>>)>>,
      <<VarDecl("c", "Number", Ident("p"), TRUE),
        Echo(BinaryOp(Ident("c"), Tok("Plus"), Ident("K")))>> }

Decls ==
    { VarDecl("x", "Number", Num(5), FALSE),
      VarDecl("x", "String", Str(<<"a", "b">>), FALSE),
      VarDecl("x", "Number", Num(-7), TRUE) }

OperandPairs ==
    { <<X, Num(2)>>, <<Num(2), X>>, <<X, Ident("K")>>, <<Num(-7), Num(2)>>,
      <<X, Str(<<"b">>)>>, <<Str(<<"b">>), X>>, <<Str(<<"a">>), Str(<<"a", "b">>)>>,
      <<AstBoolean(TRUE), AstBoolean(FALSE)>>, <<AstBoolean(FALSE), AstBoolean(TRUE)>>,
      <<X, Num(0)>> }

NestedExprs ==
    { BinaryOp(BinaryOp(X, Tok(o1), Num(2)), Tok(o2), Num(3)) : o1, o2 \in {"Minus", "Divide"} }
    \cup
    { BinaryOp(X, Tok(o1), BinaryOp(Num(7), Tok(o2), Num(3))) : o1, o2 \in {"Minus", "Divide"} }
    \cup
    { UnaryOp(Tok("Minus"), X), UnaryOp(Tok("Not"), AstBoolean(TRUE)),
      UnaryOp(Tok("Not"), X), AsOp(X, "String"), AsOp(X, "Number"), AsOp(X, "Boolean"),
      AsOp(Str(<<"t", "r", "u", "e">>), "Boolean"),
      AsOp(AsOp(Num(-7), "String"), "Number"),
      Ident("input"), Ident("y"), X, Ident("K") }

EchoStmts ==
    { Echo(BinaryOp(pr[1], Tok(op), pr[2])) : pr \in OperandPairs, op \in BinaryToks }
    \cup { Echo(e) : e \in NestedExprs }

AssignToks ==
    {"Assign", "PlusAssign", "MinusAssign", "MultiplyAssign", "DivideAssign", "ModAssign"}

AssignStmts ==
    { Assign("x", Tok(op), e) :
        op \in AssignToks, e \in {Num(2), Num(0), Str(<<"b">>), Ident("K")} }
    \cup { Assign("K", Tok("Assign"), Num(1)), Assign("K", Tok("PlusAssign"), Num(1)),
           Assign("y", Tok("Assign"), Num(1)) }

CallStmts ==
    { ProcCall("f", <<TokIdent("x"), TokNumberValue(1)>>),
      ProcCall("f", <<TokNumberValue(1), TokIdent("x")>>),
      ProcCall("f", <<TokNumberValue(7), TokIdent("K")>>),
      ProcCall("f", <<TokNumberValue(1)>>),
      ProcCall("f", <<TokStringValue(<<"b">>), TokNumberValue(1)>>),
      ProcCall("g", <<>>) }

\* `while x < n`, the body echoing x and adding 1 to it.
WhileStmts ==
    { While(BinaryOp(X, Tok("Less"), Num(n)),
            <<Echo(X), Assign("x", Tok("PlusAssign"), Num(1))>>) : n \in {5, 7} }

\* `if x < a` echo 1 `else if x < b` echo 2 `else` echo 3 `endif`, and the
\* same chain without its `else`.
ChainStmts ==
    { Condition(BinaryOp(X, Tok("Less"), Num(b[1])), <<Echo(Num(1))>>,
                Some(ElseIf(Condition(BinaryOp(X, Tok("Less"), Num(b[2])),
                                      <<Echo(Num(2))>>, last)))) :
        b \in {<<0, 7>>, <<-9, 0>>, <<7, 9>>}, last \in {None, Some(Else(<<Echo(Num(3))>>))} }

\* A block inside a block: `while x < 7`, its body an `if x < 6` that echoes
\* x and then `x += 1`.
NestedStmts ==
    { While(BinaryOp(X, Tok("Less"), Num(7)),
            <<Condition(BinaryOp(X, Tok("Less"), Num(6)), <<Echo(X)>>, None),
              Assign("x", Tok("PlusAssign"), Num(1))>>) }

\* `for i from 0 to 3`, the body reading i in an expression the validator
\* checks: a declaration, an assignment, the condition of an if or a while.
ForReaders ==
    { For("i", Num(0), Num(3), None, <<b>>) :
        b \in { VarDecl("t", "Number", Ident("i"), FALSE),
                Assign("x", Tok("PlusAssign"), Ident("i")),
                Condition(BinaryOp(Ident("i"), Tok("Less"), Num(2)), <<Echo(X)>>, None),
                While(BinaryOp(Ident("i"), Tok("Less"), Num(0)), <<Echo(X)>>) } }

\* Blocks whose body holds an ill-typed statement: a declaration from the
\* undeclared z after an echo in a while, a string declared from a number in
\* an if.
BadNested ==
    { While(BinaryOp(X, Tok("Less"), Num(7)),
            <<Echo(X), VarDecl("t", "Number", Ident("z"), FALSE)>>),
      Condition(BinaryOp(X, Tok("Less"), Num(7)),
                <<VarDecl("t", "String", Num(1), FALSE)>>, None) }

OtherStmts ==
    { Delete("x"), Delete("K"), Delete("y"), Exit(3),
      VarDecl("K", "Number", Num(1), FALSE), VarDecl("K", "Number", Num(1), TRUE),
      VarDecl("x", "Number", Num(1), FALSE),
      VarDecl("y", "Number", BinaryOp(X, Tok("Plus"), Num(1)), TRUE),
      VarDecl("y", "String", Num(1), FALSE),
      While(BinaryOp(X, Tok("Less"), Num(7)), <<Assign("x", Tok("PlusAssign"), Num(1))>>),
      For("i", Num(0), Num(3), None, <<Echo(Ident("i"))>>),
      For("i", Num(0), Num(3), Some(Num(2)), <<Echo(Ident("i"))>>),
      For("i", Num(3), Num(0), Some(Num(-1)), <<Echo(Ident("i"))>>),
      For("i", Num(3), Num(0), None, <<Echo(Ident("i"))>>),
      Condition(BinaryOp(X, Tok("Less"), Num(7)), <<Echo(X)>>, None) }
    \cup WhileStmts \cup ChainStmts \cup NestedStmts \cup ForReaders \cup BadNested

LastStmts ==
    { Echo(X), Echo(BinaryOp(X, Tok("Minus"), Num(2))),
      ProcCall("f", <<TokIdent("x"), TokNumberValue(1)>>) }

PlainF == <<Echo(BinaryOp(Ident("p"), Tok("Minus"), Ident("q")))>>

MiddleStmts == EchoStmts \cup AssignStmts \cup OtherStmts

\* The headers of the two procedures of a file: no main, a main with a
\* parameter, two procedures named main.
Headers ==
    { <<"f", FArgs, "start", <<>>>>,
      <<"f", FArgs, "main", <<<<"a", "Number">>>>>>,
      <<"main", <<>>, "main", <<>>>> }

\* The literals of the `exit` lines: 0, 3, 255, 256, 2^31 - 1, 2^31,
\* 2^31 + 5, 2^32, 2^32 + 7 and 2^33 - 1.
ExitLiterals ==
    { I64(0, 0), I64(0, 3), I64(0, 255), I64(0, 256), I64(0, 2147483647),
      I64(1, 0), I64(1, 5), I64(2, 0), I64(2, 7), I64(3, 2147483647) }

ExitLines ==
    { <<Tok("Exit"), TokNumberValue(n)>> : n \in ExitLiterals }
    \cup { <<Tok("Exit")>>, <<Tok("Exit"), Tok("Minus"), TokNumberValue(I64(0, 1))>> }

\* A program around the statement of an `exit` line: the statement is the
\* second of main, or the second of an f that main calls.
IsExitProgram(tree_, line) ==
    /\ parse_exit(line).ok
    /\ \E d \in Decls :
          \/ tree_ = Program(TopConsts, FArgs, PlainF,
                             <<d, parse_exit(line).val, Echo(X)>>)
          \/ tree_ = Program(TopConsts, FArgs,
                             <<Echo(Ident("p")), parse_exit(line).val, Echo(Ident("q"))>>,
                             <<d, ProcCall("f", <<TokNumberValue(1), TokNumberValue(7)>>),
                               Echo(X)>>)

\* Top-level constants named K: well typed, a literal or an operation of
\* another type than the declared one, and a read of the undeclared y.
ConstDecls ==
    { VarDecl("K", "Number", Num(2), TRUE),
      VarDecl("K", "String", Str(<<"a">>), TRUE),
      VarDecl("K", "Number", BinaryOp(Num(2), Tok("Plus"), Num(3)), TRUE),
      VarDecl("K", "Number", Str(<<"a">>), TRUE),
      VarDecl("K", "String", Num(2), TRUE),
      VarDecl("K", "Boolean", Num(1), TRUE),
      VarDecl("K", "Number", BinaryOp(Num(2), Tok("Less"), Num(3)), TRUE),
      VarDecl("K", "Number", Ident("y"), TRUE),
      VarDecl("K", "Number", BinaryOp(Ident("y"), Tok("Plus"), Num(1)), TRUE) }

\* Bodies of main that read the constant K in a declaration, an assignment
\* and an echo.
ConstReaders ==
    { <<VarDecl("y", "Number", BinaryOp(Ident("K"), Tok("Plus"), Num(1)), FALSE),
        Echo(Ident("y")), Echo(Ident("K"))>>,
      <<VarDecl("y", "Number", Num(1), FALSE),
        Assign("y", Tok("Assign"), Ident("K")), Echo(Ident("y"))>>,
      <<VarDecl("y", "Number", Num(1), FALSE),
        Echo(Ident("K")), Echo(Ident("y"))>> }

\* The constants the constant frame is seeded with.
BuiltIns == {"PI", "TAU", "E", "SQRT_2"}

\* Bodies of main that read a built-in constant: in a declaration, which the
\* validator checks, and in the operands of an echo.
BuiltInReaders ==
    { <<VarDecl("r", "Float", Ident(c), FALSE), VarDecl("x", "Number", Num(5), FALSE),
        Echo(X)>> : c \in BuiltIns }
    \cup { <<VarDecl("x", "Number", Num(5), FALSE),
             Echo(BinaryOp(Ident(c), Tok("Less"), Ident("TAU"))), Echo(X)>> : c \in BuiltIns }

\* Blocks that may not run and that declare t or delete x in their body.
BranchBlocks ==
    { Condition(BinaryOp(X, Tok("Less"), Num(0)),
                <<VarDecl("t", "Number", Num(1), FALSE)>>, None),
      Condition(BinaryOp(X, Tok("Less"), Num(0)), <<Echo(X)>>,
                Some(Else(<<VarDecl("t", "Number", Num(1), FALSE)>>))),
      While(BinaryOp(X, Tok("Less"), Num(0)),
            <<VarDecl("t", "Number", Num(1), FALSE)>>),
      Condition(BinaryOp(X, Tok("Less"), Num(0)), <<Delete("x")>>, None) }

\* The program is one of: a main of three statements over the plain f, a
\* main whose middle statement is a call, over each body of f, or two
\* procedures under other headers.
IsProgram(tree_) ==
    \/ \E d \in Decls, s \in MiddleStmts, l \in LastStmts :
            tree_ = Program(TopConsts, FArgs, PlainF, <<d, s, l>>)
    \/ \E d \in Decls, s \in CallStmts, l \in LastStmts, fb \in FBodies :
            tree_ = Program(TopConsts, FArgs, fb, <<d, s, l>>)
    \/ \E h \in Headers, d \in Decls, e \in {X, Num(1)} :
            tree_ = ProgramOf(TopConsts, h[1], h[2], PlainF, h[3], h[4],
                              <<d, Echo(e), Echo(X)>>)
    \/ \E c \in ConstDecls, d \in Decls :
            tree_ = Program(<<c>>, FArgs, PlainF, <<d, Echo(Ident("K")), Echo(X)>>)
    \/ \E b \in ConstReaders :
            \/ tree_ = Program(TopConsts, FArgs, PlainF, b)
            \/ tree_ = ProgramConstLast(TopConsts, FArgs, PlainF, b)
    \/ \E b \in BuiltInReaders : tree_ = Program(TopConsts, FArgs, PlainF, b)
    \/ \E b \in BranchBlocks, n \in {"t", "x"} :
            tree_ = Program(TopConsts, FArgs, PlainF,
                            <<VarDecl("x", "Number", Num(5), FALSE), b,
                              VarDecl("u", "Number", Ident(n), FALSE)>>)

\* ---------------------------------------------------------------- token lines

\* The most binary operators in a line of operands and binary operators.
MaxOps == 3

\* The most operators between the terms of a line with unary operators.
MaxUnaryOps == 2

OperandNames == <<"a", "b", "c", "d", "e", "f", "g", "h">>

BinaryOperators ==
    {"Or", "And", "Equal", "NotEqual", "Greater", "Less", "GreaterEqual", "LessEqual",
     "Plus", "Minus", "Multiply", "Divide", "Mod"}

\* operand (operator operand)*: the i-th operand is the number i or the
\* i-th name.
OperatorLine(n, ops, literal) ==
    [i \in 1..(2 * n + 1) |->
        IF i % 2 = 1
        THEN IF literal THEN TokNumberValue((i + 1) \div 2)
             ELSE TokIdent(OperandNames[(i + 1) \div 2])
        ELSE Tok(ops[i \div 2])]

UnaryPrefixes == {"", "Minus", "Not"}

TermOperators == {"Less", "Minus", "Multiply", "As"}

\* A term: an optional unary operator, then a name or the type keyword float.
Term(i, prefix, keyword) ==
    (IF prefix = "" THEN <<>> ELSE <<Tok(prefix)>>)
        \o <<IF keyword THEN Tok("Float") ELSE TokIdent(OperandNames[i])>>

\* term (operator term)*.
RECURSIVE TermLine(_, _, _, _)
TermLine(n, prefixes, keywords, ops) ==
    IF n = 0 THEN Term(1, prefixes[1], keywords[1])
    ELSE TermLine(n - 1, prefixes, keywords, ops)
            \o <<Tok(ops[n])>> \o Term(n + 1, prefixes[n + 1], keywords[n + 1])

\* Lines with parentheses, lists, trailing keywords and malformed lines.
OtherLines ==
    <<  <<Tok("OpenParen"), TokIdent("a"), Tok("Plus"), TokIdent("b"), Tok("CloseParen"),
          Tok("Multiply"), TokIdent("c")>>,
        <<TokIdent("a"), Tok("Multiply"), Tok("OpenParen"), TokIdent("b"), Tok("Plus"),
          TokIdent("c"), Tok("CloseParen")>>,
        <<Tok("Minus"), Tok("OpenParen"), TokIdent("a"), Tok("Plus"), TokIdent("b"),
          Tok("CloseParen")>>,
        <<Tok("OpenParen"), TokIdent("a"), Tok("Plus"), TokIdent("b")>>,
        <<TokIdent("a"), Tok("Plus")>>,
        <<TokIdent("a"), TokIdent("b")>>,
        <<Tok("CloseParen")>>,
        <<>>,
        <<TokIdent("a"), Tok("To"), TokIdent("b")>>,
        <<TokNumberValue(1), Tok("Step"), TokNumberValue(2)>>,
        <<TokNumberValue(1), Tok("Comma"), TokNumberValue(2)>>,
        <<TokNumberValue(1), Tok("Comma"), TokIdent("a")>>,
        <<TokIdent("a"), Tok("Comma"), TokNumberValue(2)>>,
        <<TokNumberValue(1), Tok("Comma"), TokNumberValue(2), Tok("CloseParen")>>,
        <<TokStringValue("ab"), Tok("Plus"), TokBooleanValue(TRUE)>>,
        <<TokIdent("a"), Tok("As"), TokIdent("b")>>,
        <<TokIdent("a"), Tok("As"), TokNumberValue(1)>>,
        <<TokIdent("a"), Tok("As"), Tok("Number")>>,
        <<TokIdent("a"), Tok("As"), Tok("String")>>,
        <<TokIdent("a"), Tok("As"), Tok("Bool")>>,
        <<TokIdent("a"), Tok("As"), TokIdent("sqrt")>>  >>

IsLine(toks) ==
    \/ \E n \in 0..MaxOps : \E ops \in [1..n -> BinaryOperators] : \E literal \in BOOLEAN :
          toks = OperatorLine(n, ops, literal)
    \/ \E n \in 0..MaxUnaryOps :
          \E prefixes \in [1..(n + 1) -> UnaryPrefixes] :
             \E keywords \in [1..(n + 1) -> BOOLEAN] :
                \E ops \in [1..n -> TermOperators] :
                   toks = TermLine(n, prefixes, keywords, ops)
    \/ \E i \in 1..Len(OtherLines) : toks = OtherLines[i]

\* ---------------------------------------------------------------- specification

Init ==
    /\ handler = FileHandlerNew(<<>>)
    /\ parser = ParserNew
    /\ \/ IsProgram(ast) /\ tokens = <<>>
       \/ \E line \in ExitLines : tokens = line /\ IsExitProgram(ast, line)
    /\ phase = "validate"
    /\ procs = EmptyMap
    /\ const_code = <<>>
    /\ consts = ScopeNew
    /\ frames = <<>>
    /\ out = <<>>
    /\ error = NoError
    /\ exit_code = -1
    /\ tree = None

Next ==
    \/ Validate
    \/ Compile
    \/ StartMain
    \/ VmPush
    \/ VmLoad
    \/ VmStoreLocal
    \/ VmStoreConst
    \/ VmDelete
    \/ VmBinary
    \/ VmUnary
    \/ VmEcho
    \/ VmCall
    \/ VmReturn
    \/ VmExit
    \/ Finish

Spec == Init /\ [][Next]_vars

\* The expression parser alone, applied to one token line.
InitParse ==
    /\ handler = FileHandlerNew(<<>>)
    /\ parser = ParserNew
    /\ IsLine(tokens)
    /\ phase = "parse"
    /\ tree = None
    /\ ast = <<>>
    /\ procs = EmptyMap
    /\ const_code = <<>>
    /\ consts = ScopeNew
    /\ frames = <<>>
    /\ out = <<>>
    /\ error = NoError
    /\ exit_code = -1

ParseValue ==
    /\ phase = "parse"
    /\ tree' = parse_value(tokens, 0)
    /\ phase' = "parsed"
    /\ UNCHANGED <<ast, procs, const_code, consts, frames, out, error, exit_code, tokens, handler, parser>>

NextParse == ParseValue

SpecParse == InitParse /\ [][NextParse]_vars

\* The file handler on its own: a file of a few lines is read, and an error
\* is shown at one of the lines the handler kept.
MaxLines == 3

LineTexts == { <<"a">>, <<" ", "a">>, <<"b", " ">>, <<>>, <<" ">>, <<"#", "c">> }

Files == UNION { [1..n -> LineTexts] : n \in 1..MaxLines }

InitFile ==
    /\ \E file \in Files : handler = FileHandlerNew(file)
    /\ parser = ParserNew
    /\ phase = "file"
    /\ tree = None
    /\ ast = <<>>
    /\ tokens = <<>>
    /\ procs = EmptyMap
    /\ const_code = <<>>
    /\ consts = ScopeNew
    /\ frames = <<>>
    /\ out = <<>>
    /\ error = NoError
    /\ exit_code = -1

\* A stage reports an error at the index line_number of ready_file.
ShowError ==
    /\ phase = "file"
    /\ \E line_number \in 0..(Len(handler.ready_file) - 1) :
          /\ error' = [code |-> "A15", line |-> line_number]
          /\ out' = <<show_error(handler, line_number, "A15")>>
    /\ phase' = "error"
    /\ exit_code' = 101
    /\ UNCHANGED <<ast, procs, const_code, consts, frames, tokens, tree, handler, parser>>

NextFile == ShowError

SpecFile == InitFile /\ [][NextFile]_vars

\* Parser::start on its own: a file of a few lines, each with the tokens the
\* lexer gives it, is parsed item by item.
MaxGrid == 4

GridLines ==
    {       [text |-> <<"p", "r", "o", "c", " ", "m", "a", "i", "n">>,
       toks |-> <<Tok("Proc"), TokIdent("main")>>],
      [text |-> <<"e", "n", "d">>,
       toks |-> <<Tok("End")>>],
      [text |-> <<"c", "o", "n", "s", "t", " ", "n", "u", "m", "b", "e", "r", " ", "k", " ", "=", " ", "2">>,
       toks |-> <<Tok("Const"), Tok("Number"), TokIdent("k"), Tok("Assign"), TokNumberValue(2)>>],
      [text |-> <<"e", "c", "h", "o", " ", "x">>,
       toks |-> <<Tok("Echo"), TokIdent("x")>>],
      [text |-> <<"w", "h", "i", "l", "e", " ", "x", " ", "<", " ", "1">>,
       toks |-> <<Tok("While"), TokIdent("x"), Tok("Less"), TokNumberValue(1)>>],
      [text |-> <<"e", "n", "d", "w", "h", "i", "l", "e">>,
       toks |-> <<Tok("EndWhile")>>],
      [text |-> <<"i", "f", " ", "x", " ", "<", " ", "1">>,
       toks |-> <<Tok("If"), TokIdent("x"), Tok("Less"), TokNumberValue(1)>>],
      [text |-> <<"e", "l", "s", "e">>,
       toks |-> <<Tok("Else")>>],
      [text |-> <<"e", "n", "d", "i", "f">>,
       toks |-> <<Tok("EndIf")>>],
      [text |-> <<"f", "o", "r", " ", "i", " ", "f", "r", "o", "m", " ", "0", " ", "t", "o", " ", "3">>,
       toks |-> <<Tok("For"), TokIdent("i"), Tok("From"), TokNumberValue(0), Tok("To"), TokNumberValue(3)>>],
      [text |-> <<"e", "n", "d", "f", "o", "r">>,
       toks |-> <<Tok("EndFor")>>] }

Grids == UNION { [1..n -> GridLines] : n \in 1..MaxGrid }

InitStart ==
    /\ \E grid \in Grids :
          /\ handler = FileHandlerNew([i \in 1..Len(grid) |-> grid[i].text])
          /\ tokens = [i \in 1..Len(grid) |-> grid[i].toks]
    /\ parser = ParserNew
    /\ phase = "start"
    /\ tree = None
    /\ ast = <<>>
    /\ procs = EmptyMap
    /\ const_code = <<>>
    /\ consts = ScopeNew
    /\ frames = <<>>
    /\ out = <<>>
    /\ error = NoError
    /\ exit_code = -1

\* The outcome of one turn of the loop of Parser::start for the result r of
\* parse(): the item joins the tree, or the failure goes to show_error with
\* the cursor line, which indexes ready_file: past its last line the index
\* panics.
ItemParsed(r) ==
    IF r.ok
    THEN /\ ast' = Append(ast, r.node)
         /\ parser' = [line |-> r.line, pos |-> 0]
         /\ UNCHANGED <<phase, out, error, exit_code>>
    ELSE /\ parser' = [parser EXCEPT !.line = r.line]
         /\ exit_code' = 101
         /\ UNCHANGED ast
         /\ IF r.err # "not yet implemented" /\ r.line < Len(handler.ready_file)
            THEN /\ phase' = "error"
                 /\ error' = [code |-> r.err, line |-> r.line]
                 /\ out' = <<show_error(handler, r.line, r.err)>>
            ELSE /\ phase' = "panic"
                 /\ error' = [code |-> IF r.err = "not yet implemented"
                                       THEN r.err ELSE "index out of bounds",
                              line |-> r.line]
                 /\ UNCHANGED out

\* One turn of the loop of Parser::start: parse() on the item under the
\* cursor.
ParseItem ==
    /\ phase = "start"
    /\ parser.line < Len(tokens)
    /\ ItemParsed(parse(tokens, parser.line))
    /\ UNCHANGED <<procs, const_code, consts, frames, tokens, tree, handler>>

\* The loop of Parser::start ends: the cursor is past the last line.
StartReturns ==
    /\ phase = "start"
    /\ parser.line >= Len(tokens)
    /\ phase' = "parsed"
    /\ UNCHANGED <<ast, procs, const_code, consts, frames, out, error, exit_code, tokens,
                   tree, handler, parser>>

NextStart == ParseItem \/ StartReturns

SpecStart == InitStart /\ [][NextStart]_vars

\* The lexer on its own: a file of one line that holds a numeric run.
MaxRun == 3

RECURSIVE RunsOf(_)
RunsOf(n) ==
    IF n = 1 THEN { <<"0">>, <<"7">> }
    ELSE { Append(r, c) : r \in RunsOf(n - 1), c \in {"0", "7", DotChar} }

Nines(n) == [i \in 1..n |-> "9"]

\* Runs of up to MaxRun characters, and long runs around 2^63: eighteen to
\* twenty nines, 2^63 - 1, 2^63, nineteen zeros before a 7, and a long run
\* with a dot.
NumericRuns ==
    UNION { RunsOf(n) : n \in 1..MaxRun }
    \cup { Nines(18), Nines(19), Nines(20), I64MaxDigits,
           [I64MaxDigits EXCEPT ![19] = "8"],
           [i \in 1..20 |-> IF i = 20 THEN "7" ELSE "0"],
           Nines(20) \o <<DotChar, "5">> }

RunPrefixes == { <<>>, <<"x", " ", "=", " ">>, <<"-">>, <<"e", "c", "h", "o", " ", "(">> }

RunSuffixes == { <<>>, <<" ", "+", " ", "x">>, <<")">>, <<" ", "!", "=", "x">> }

InitLex ==
    /\ \E a \in RunPrefixes, run \in NumericRuns, b \in RunSuffixes :
            handler = FileHandlerNew(<<a \o run \o b>>)
    /\ parser = ParserNew
    /\ phase = "lex"
    /\ tokens = <<>>
    /\ tree = None
    /\ ast = <<>>
    /\ procs = EmptyMap
    /\ const_code = <<>>
    /\ consts = ScopeNew
    /\ frames = <<>>
    /\ out = <<>>
    /\ error = NoError
    /\ exit_code = -1

\* tokenize_file: every line of ready_file is tokenized, and the first line
\* that fails is shown with its error.
TokenizeFile ==
    /\ phase = "lex"
    /\ LET r == tokenize_lines(handler.ready_file, 0, <<>>)
       IN  IF r.ok
           THEN /\ tokens' = r.val
                /\ phase' = "lexed"
                /\ UNCHANGED <<out, error, exit_code>>
           ELSE /\ tokens' = tokens
                /\ phase' = "error"
                /\ error' = [code |-> r.err, line |-> r.line]
                /\ out' = <<show_error(handler, r.line, r.err)>>
                /\ exit_code' = 101
    /\ UNCHANGED <<ast, procs, const_code, consts, frames, tree, handler, parser>>

NextLex == TokenizeFile

SpecLex == InitLex /\ [][NextLex]_vars

\* The conversions on their own: a Number on an operand stack is cast to a
\* string and the string back to a number.
MaxNumber == 20

Numbers == (-MaxNumber..MaxNumber) \cup {1000000000, 2147483647, -2147483647}

InitConvert ==
    /\ handler = FileHandlerNew(<<>>)
    /\ parser = ParserNew
    /\ \E n \in Numbers :
          /\ tree = Num(n)
          /\ frames = <<[Frame("main", <<>>, ScopeNew) EXCEPT !.stack = <<TNumber(n)>>]>>
    /\ phase = "convert"
    /\ ast = <<>>
    /\ tokens = <<>>
    /\ procs = EmptyMap
    /\ const_code = <<>>
    /\ consts = ScopeNew
    /\ out = <<>>
    /\ error = NoError
    /\ exit_code = -1

\* The conversion replaces the value in place, or fails with its error.
Converted(r, next, failed) ==
    /\ IF r.ok
       THEN /\ frames' = <<[Top EXCEPT !.stack = <<r.val>>]>>
            /\ phase' = next
            /\ error' = error
       ELSE /\ frames' = frames
            /\ phase' = failed
            /\ error' = [code |-> r.err, line |-> 0]
    /\ UNCHANGED <<ast, procs, const_code, consts, out, exit_code, tokens, handler, parser, tree>>

\* The number is cast to a string, and so is the boolean it was cast to.
ConvertToString ==
    /\ phase \in {"convert", "boolean"}
    /\ Converted(convert_to_string(Top.stack[1]),
                 IF phase = "convert" THEN "string" ELSE "boolean_string",
                 "convert_failed")

ConvertToNumber ==
    /\ phase = "string"
    /\ Converted(convert_to_number(Top.stack[1]), "number", "convert_failed")

\* The number is cast to a boolean, and so are its string and the string of
\* the boolean it was cast to.
ConvertToBool ==
    /\ phase \in {"convert", "string", "boolean_string"}
    /\ Converted(convert_to_bool(Top.stack[1]),
                 IF phase = "boolean_string" THEN "boolean_again" ELSE "boolean",
                 IF convert_to_bool(Top.stack[1]).ok THEN "" ELSE
                 IF convert_to_bool(Top.stack[1]).err = "panic"
                 THEN "panic" ELSE "boolean_failed")

NextConvert == ConvertToString \/ ConvertToNumber \/ ConvertToBool

SpecConvert == InitConvert /\ [][NextConvert]_vars

\* ---------------------------------------------------------------- statements and values

\* The body of the procedure `name` in the tree, empty if there is none.
ProcBody(name) ==
    LET named == {i \in 1..Len(ast) : ast[i].kind.k = "Proc" /\ ast[i].kind.name = name}
    IN  IF named = {} THEN <<>> ELSE ast[CHOOSE i \in named : TRUE].kind.body

\* The statement of procedure `name` whose node carries `line`.
Statement(name, line) ==
    LET body == ProcBody(name)
        i == CHOOSE i \in 1..Len(body) : body[i].line = line
    IN  body[i].kind

\* The statement the current instruction was compiled from.
CurStmt == Statement(Top.name, Cur.line_number)

\* The instructions of the current tape compiled from the statement at `line`.
StmtCode(line) ==
    LET on == SelectSeq(Top.tape, LAMBDA n : n.line_number = line)
    IN  [i \in 1..Len(on) |-> on[i].instruction]

\* The code of an expression by itself.
Code(e) == expr_compile(<<>>, e).val

SameValue(a, b) == a.type = b.type /\ a.val = b.val

\* The value of an expression read in source order: a binary node is its
\* left value, the operator, its right value.
RECURSIVE Eval(_, _)
Eval(e, locals) ==
    CASE e.k = "Number" -> TNumber(e.num)
      [] e.k = "String" -> TString(e.str)
      [] e.k = "Boolean" -> TBoolean(e.bool)
      [] e.k = "Ident" -> ScopeGet(locals, consts, e.name).val.value
      [] e.k = "UnaryOp" -> unary_op(unary_inst(e.op).val.op, Eval(e.expr, locals)).val
      [] e.k = "AsOp" -> unary_op(cast_inst(e.op).op, Eval(e.expr, locals)).val
      [] e.k = "BinaryOp" ->
            binary_op(e.op.tok, Eval(e.left, locals), Eval(e.right, locals)).val

\* The number of values an instruction pops.
Pops(ins) ==
    CASE ins.op \in BinaryToks -> 2
      [] ins.op \in UnaryOps \cup {"Echo", "StoreLocal", "StoreConst"} -> 1
      [] ins.op = "Call" -> ins.argc
      [] OTHER -> 0

\* C1: in a program the validator accepted, no instruction pops a value the
\* operand stack does not hold: whenever an instruction is about to run, the
\* stack of its activation holds at least as many values as it pops.
C1_NoUnderflow == AtInstruction => Len(Top.stack) >= Pops(Cur.instruction)

\* A binary instruction about to run inside a callee, on exactly two values.
C1_Witness ==
    /\ phase = "run"
    /\ AtInstruction
    /\ Len(frames) = 2
    /\ CurOp \in BinaryToks
    /\ Len(Top.stack) = Pops(Cur.instruction)

\* The names of the top-level constants of the tree.
TopConstNames ==
    {ast[i].kind.name : i \in {j \in 1..Len(ast) : ast[j].kind.k = "VarDecl"}}

\* The constant frame const_init builds from the seeded constants.
RECURSIVE ConstInitFrame(_, _)
ConstInitFrame(nodes, frame) ==
    IF nodes = <<>> THEN frame
    ELSE IF Head(nodes).kind.k = "VarDecl"
    THEN ConstInitFrame(Tail(nodes),
                        ScopeDeclare(frame, Head(nodes).kind.name,
                                     Eval(Head(nodes).kind.value, frame), TRUE))
    ELSE ConstInitFrame(Tail(nodes), frame)

\* main and the procedures have started.
Started == frames # <<>> /\ Top.name # "const_init"

\* C2: once const_init has finished, consts is the same in every later
\* state, whatever main and the procedures do; a statement that assigns to
\* or deletes a top-level constant fails with ConstReassign (A07) or
\* ConstDelete (A28).
C2_ConstFrame ==
    /\ Started => consts = ConstInitFrame(ast, SeededConsts)
    /\ \A i \in 1..Len(ProcBody("main")) :
          LET node == ProcBody("main")[i]
          IN  (/\ node.kind.k \in {"Assign", "Delete"}
               /\ node.kind.name \in TopConstNames
               /\ phase = "error"
               /\ error.line = node.line)
              => error.code = (IF node.kind.k = "Assign" THEN "A07" ELSE "A28")

\* C3: a call leaves its caller's local frame and operand stack alone: the
\* call takes the n arguments off the caller's stack and nothing else, no
\* step of the callee or of anything it calls changes the locals or the stack
\* of an activation below it, and the return hands them back as they were.
C3_CallerFrame ==
    [][/\ \A i \in 1..Len(frames) :
             (i < Len(frames) /\ i <= Len(frames')) =>
                /\ frames'[i].locals = frames[i].locals
                /\ frames'[i].stack = frames[i].stack
       /\ (Len(frames) >= 1 /\ Len(frames') = Len(frames) + 1) =>
             /\ frames'[Len(frames)].locals = Top.locals
             /\ frames'[Len(frames)].stack = Drop(Top.stack, Cur.instruction.argc)]_vars

\* main has resumed after a call of an f that reassigned its parameter and
\* declared a local named x: main's own x is still the 5 it declared.
C3_Witness ==
    /\ phase = "run"
    /\ Len(frames) = 1
    /\ Top.ip > 0
    /\ Top.tape[Top.ip].instruction.op = "Call"
    /\ \E i \in 1..Len(ProcBody("f")) :
          ProcBody("f")[i].kind.k = "VarDecl" /\ ProcBody("f")[i].kind.name = "x"
    /\ ScopeExist(Top.locals, "x")
    /\ SameValue(Top.locals.vars["x"].value, TNumber(5))

\* The quotient n / k rounded up, for k # 0.
CeilDiv(n, k) ==
    LET m == IF k < 0 THEN -n ELSE n
        d == IF k < 0 THEN -k ELSE k
    IN  IF m <= 0 THEN 0 ELSE (m + d - 1) \div d

\* The step of a for statement: the one given, or 1 or -1 by direction.
StepOf(kind) ==
    IF kind.step.some THEN kind.step.v.num
    ELSE IF kind.end.num < kind.start.num THEN -1 ELSE 1

Trips(kind) == CeilDiv(kind.end.num - kind.start.num, StepOf(kind))

\* C4: `for v from a to b step k` ends, its body having run
\* max(0, ceil((b - a) / k)) times, and v then holds the first value that
\* failed the loop condition: a main of a declaration, a for loop that echoes
\* v and `echo x` ends normally with that many lines and one more, and v is
\* a + trips * k.
C4_ForLoop ==
    LET main == ProcBody("main")
    IN  (/\ Len(main) = 3
         /\ main[2].kind.k = "For"
         /\ main[3].kind = Echo(X)
         /\ phase \in {"done", "error", "panic", "exit"})
        => /\ phase = "done"
           /\ Len(out) = Trips(main[2].kind) + 1
           /\ ScopeExist(Top.locals, main[2].kind.var_name)
           /\ SameValue(Top.locals.vars[main[2].kind.var_name].value,
                        TNumber(main[2].kind.start.num
                                  + Trips(main[2].kind) * StepOf(main[2].kind)))

\* The operator instruction of `echo l op r` is about to run.
AtRootOperator ==
    /\ phase = "run"
    /\ AtInstruction
    /\ CurOp \in BinaryToks
    /\ Top.ip + 2 <= Len(Top.tape)
    /\ Top.tape[Top.ip + 2].instruction.op = "Echo"
    /\ Top.tape[Top.ip + 2].line_number = Cur.line_number

\* The Echo instruction of `echo l op r` is about to run.
AtEchoOfBinary ==
    /\ phase = "run"
    /\ AtInstruction
    /\ CurOp = "Echo"
    /\ CurStmt.expr.k = "BinaryOp"

\* C5: the tape of `l op r` is the code of r, the code of l, then op; when
\* op runs, the value popped first is the value of l and the value popped
\* second is the value of r, and what it leaves is l op r, also for the
\* operators that do not commute and for + on strings.
C5_OperandOrder ==
    /\ AtRootOperator =>
          LET e == CurStmt.expr
          IN  /\ StmtCode(Cur.line_number)
                    = Code(e.right) \o Code(e.left) \o <<Ins(e.op.tok), Ins("Echo")>>
              /\ Len(Top.stack) >= 2
              /\ SameValue(Peek(Top.stack, 1), Eval(e.left, Top.locals))
              /\ SameValue(Peek(Top.stack, 2), Eval(e.right, Top.locals))
    /\ AtEchoOfBinary =>
          /\ Top.stack # <<>>
          /\ SameValue(Peek(Top.stack, 1), Eval(CurStmt.expr, Top.locals))

\* `echo x - 2` with x = 5 is about to print 3, and `echo x + "b"` with
\* x = "ab" has "ab" on top of "b" as + is about to run.
C5_Witness ==
    \/ /\ AtEchoOfBinary
       /\ CurStmt.expr = BinaryOp(X, Tok("Minus"), Num(2))
       /\ Len(Top.stack) = 1
       /\ SameValue(Peek(Top.stack, 1), TNumber(3))
    \/ /\ AtRootOperator
       /\ CurStmt.expr = BinaryOp(X, Tok("Plus"), Str(<<"b">>))
       /\ Len(Top.stack) = 2
       /\ SameValue(Peek(Top.stack, 1), TString(<<"a", "b">>))
       /\ SameValue(Peek(Top.stack, 2), TString(<<"b">>))

\* The StoreLocal of a compound assignment is about to run.
AtCompoundStore ==
    /\ phase = "run"
    /\ AtInstruction
    /\ CurOp = "StoreLocal"
    /\ CurStmt.k = "Assign"
    /\ CurStmt.op.tok # "Assign"

\* C6: `x op= e` stores (old x) op e, the old value of x being the left
\* operand: the value its StoreLocal is about to store is the value x still
\* holds, op, the value of e.
C6_CompoundAssign ==
    AtCompoundStore =>
        /\ Top.stack # <<>>
        /\ SameValue(Peek(Top.stack, 1),
                     binary_op(assign_inst(CurStmt.op).op,
                               Top.locals.vars[CurStmt.name].value,
                               Eval(CurStmt.expr, Top.locals)).val)

\* The value of a call argument in the caller's frame.
ArgValue(arg, locals) ==
    CASE arg.tok = "Ident" -> ScopeGet(locals, consts, arg.name).val.value
      [] arg.tok = "NumberValue" -> TNumber(arg.num)
      [] arg.tok = "StringValue" -> TString(arg.str)
      [] arg.tok = "BooleanValue" -> TBoolean(arg.bool)

\* A callee is about to run its first instruction.
AtCalleeStart == phase = "run" /\ Len(frames) >= 2 /\ Top.ip = 0

\* C7: the arguments of a call are pushed in reverse source order, the first
\* argument last, and the callee starts with its i-th parameter bound to the
\* value of the i-th argument.
C7_ArgumentBinding ==
    AtCalleeStart =>
        LET caller == frames[Len(frames) - 1]
            at == caller.ip + 1
            stmt == Statement(caller.name, caller.tape[at].line_number)
            params == procs[Top.name].args
        IN  /\ stmt.k = "ProcCall"
            /\ Len(params) = Len(stmt.args)
            /\ \A i \in 1..Len(stmt.args) :
                  /\ caller.tape[at - i].instruction = arg_inst(stmt.args[i])
                  /\ ScopeExist(Top.locals, params[i][1])
                  /\ SameValue(Top.locals.vars[params[i][1]].value,
                               ArgValue(stmt.args[i], caller.locals))

\* f(1, x) called from main with x = 5: p is 1 and q is 5.
C7_Witness ==
    /\ AtCalleeStart
    /\ Len(frames) = 2
    /\ SameValue(Top.locals.vars["p"].value, TNumber(1))
    /\ SameValue(Top.locals.vars["q"].value, TNumber(5))

\* What the validator answers for the expression of the i-th statement of
\* main, given the statements before it.
EchoCheck(i) ==
    LET ps == collect_procs(ast, EmptyMap).procs
        cs == [n \in TopConstNames |-> "Number"]
        before == body_check(ps, EmptyMap, cs, SubSeq(ProcBody("main"), 1, i - 1))
    IN  IF before.ok THEN expr_check(before.variables, cs, ProcBody("main")[i].kind.expr)
        ELSE Ok("unchecked")

\* C10: the validator checks the expression of every echo: an echo of an
\* undeclared identifier is rejected with A03 and an ill-typed one with its
\* type error, at the line of the echo and before any instruction runs.
C10_EchoChecked ==
    \A i \in 1..Len(ProcBody("main")) :
        LET node == ProcBody("main")[i]
        IN  (node.kind.k = "Echo" /\ ~EchoCheck(i).ok /\ phase # "validate") =>
                /\ phase = "error"
                /\ frames = <<>>
                /\ error = [code |-> EchoCheck(i).err, line |-> node.line]

\* Some procedure body declares a local or assigns to a name that is a
\* top-level constant.
TouchesTopConst ==
    \E i \in 1..Len(ast) :
        /\ ast[i].kind.k = "Proc"
        /\ \E j \in 1..Len(ast[i].kind.body) :
              /\ ast[i].kind.body[j].kind.k \in {"VarDecl", "Assign"}
              /\ ast[i].kind.body[j].kind.name \in TopConstNames

\* C11: the validator rejects every procedure body that declares a local
\* variable or constant named like a top-level constant and every body that
\* assigns to such a name; in no accepted program does a local frame hold an
\* entry whose name is a top-level constant.
C11_NoShadowing ==
    /\ (TouchesTopConst /\ phase # "validate") => (phase = "error" /\ frames = <<>>)
    /\ Started =>
          \A i \in 1..Len(frames) : DOMAIN frames[i].locals.vars \cap TopConstNames = {}

\* The procedures of the tree that are named main.
MainProcs == {i \in 1..Len(ast) : ast[i].kind.k = "Proc" /\ ast[i].kind.name = "main"}

\* No instruction of const_init or of a procedure has run.
NothingRan ==
    /\ out = <<>>
    /\ \/ frames = <<>>
       \/ phase = "const_init" /\ Len(frames) = 1 /\ Top.ip = 0

\* C12: a program runs only if it has exactly one procedure named main and
\* that procedure takes no parameters: of any other program no instruction
\* of const_init or of a procedure ever runs, and a program without main or
\* whose main takes parameters ends with A22.
C12_MainRequired ==
    /\ (Cardinality(MainProcs) # 1 \/ \E i \in MainProcs : ast[i].kind.args # <<>>)
          => NothingRan
    /\ (MainProcs = {} \/ \E i \in MainProcs : ast[i].kind.args # <<>>)
          => (phase \in {"done", "exit", "error", "panic"} => error.code = "A22")

\* The lines of stdout that echo wrote.
EchoLines(o) == SelectSeq(o, LAMBDA l : l.kind = "echo")

HasExitLine == tokens # <<>> /\ tokens[1].tok = "Exit"

\* C14: for every integer literal N of `exit N`, running the statement ends
\* the process with exit status exactly N, and nothing after the Exit runs:
\* the activation that ran it stays at the Exit instruction, in main and in
\* a callee alike.
C14_ExitStatus ==
    (HasExitLine /\ phase = "exit") =>
        /\ tokens[2].num.hi = 0
        /\ exit_code = tokens[2].num.lo
        /\ Top.ip < Len(Top.tape)
        /\ Top.tape[Top.ip + 1].instruction.op = "Exit"

\* C15: for every signed integer n, casting the Number n to a string and
\* the string back to a number succeeds, and yields the Number n.
C15_RoundTrip ==
    /\ phase # "convert_failed"
    /\ phase = "number" =>
          /\ error = NoError
          /\ Len(Top.stack) = 1
          /\ SameValue(Top.stack[1], TNumber(tree.num))

\* A negative number of several digits went through both conversions.
C15_Witness ==
    /\ phase = "number"
    /\ tree.num < -9
    /\ SameValue(Top.stack[1], TNumber(tree.num))

\* main is a declaration of the Number variable x, the statement `kind_k`
\* and `echo x`, and the program has ended.
EndedAfter(kind_k) ==
    LET main == ProcBody("main")
    IN  /\ Len(main) = 3
        /\ main[1].kind.k = "VarDecl"
        /\ main[1].kind.type_ = "Number"
        /\ ~main[1].kind.is_const
        /\ main[2].kind.k = kind_k
        /\ main[3].kind = Echo(X)
        /\ phase \in {"done", "error", "panic", "exit"}

\* The lines `while x < bound` writes from x = from, its body echoing x and
\* adding 1 to it.
RECURSIVE WhileOut(_, _)
WhileOut(from, bound) ==
    IF from < bound
    THEN <<EchoLine(i64_to_string(from))>> \o WhileOut(from + 1, bound)
    ELSE <<>>

\* C16: a while loop evaluates its condition before each iteration: when the
\* condition is true n times and then false the body runs exactly n times
\* and execution continues after `endwhile`. With `while x < bound` echoing
\* and incrementing x, main ends normally having written x, x + 1, ... up to
\* bound - 1 and then the x that `echo x` after the loop reads.
C16_WhileLoop ==
    LET main == ProcBody("main")
        from == main[1].kind.value.num
        bound == main[2].kind.expr.right.num
        after == IF from < bound THEN bound ELSE from
    IN  (/\ EndedAfter("While")
         /\ Len(main[2].kind.body) = 2
         /\ main[2].kind.body[1].kind.k = "Echo") =>
            /\ phase = "done"
            /\ EchoLines(out) = WhileOut(from, bound) \o <<EchoLine(i64_to_string(after))>>

\* The echo lines of the branch an if / else if / else chain takes.
RECURSIVE ChainOut(_, _)
ChainOut(kind, locals) ==
    LET lines(nodes) ==
            [i \in 1..Len(nodes) |-> EchoLine(Display(Eval(nodes[i].kind.expr, locals)))]
    IN  IF Eval(kind.expr, locals).val THEN lines(kind.yes)
        ELSE IF ~kind.no.some THEN <<>>
        ELSE IF kind.no.v.else_k = "ElseIf" THEN ChainOut(kind.no.v.node.kind, locals)
        ELSE lines(kind.no.v.nodes)

\* C17: an if / else if / else chain runs the body of the first condition
\* that is true, the else body when none is, and nothing else, and execution
\* continues after `endif`: main ends normally having written the lines of
\* that one body and then the line of the `echo x` after the chain.
C17_Chain ==
    LET main == ProcBody("main")
        locals == ScopeDeclare(ScopeNew, "x", TNumber(main[1].kind.value.num), FALSE)
    IN  (EndedAfter("Condition") /\ main[2].kind.no.some) =>
            /\ phase = "done"
            /\ EchoLines(out) = ChainOut(main[2].kind, locals)
                                  \o <<EchoLine(i64_to_string(main[1].kind.value.num))>>

\* main holds an if, a while or a for after its first statement, and the
\* validator accepted the program.
BlockAccepted ==
    /\ \E j \in 2..Len(ProcBody("main")) :
            ProcBody("main")[j].kind.k \in {"Condition", "While", "For"}
    /\ check_types(ast).ok

JumpsOf(tape) ==
    {i \in 1..Len(tape) : tape[i].instruction.op \in {"Jump", "JumpIfFalse"}}

\* C18: in the tape compile produces for a procedure, every Jump and
\* JumpIfFalse address is an absolute index into the whole tape, between 0
\* and the length of the tape, also when the if / while / for is not the first
\* statement of the body and when blocks are nested: once compile is over,
\* main has a tape, the tape holds the branch of its block, and every
\* address of the tape is in range.
C18_JumpAddresses ==
    (BlockAccepted /\ phase \notin {"validate", "compile"}) =>
        /\ "main" \in DOMAIN procs
        /\ JumpsOf(procs["main"].body) # {}
        /\ \A i \in JumpsOf(procs["main"].body) :
              procs["main"].body[i].instruction.target \in 0..Len(procs["main"].body)

\* The top-level constant declarations of the file.
TopConstDecls == {i \in 1..Len(ast) : ast[i].kind.k = "VarDecl"}

\* The type the validator infers for the expression of a top-level constant,
\* or the error of the inference: no variable and no constant is in scope.
InferredConst(i) == expr_check(EmptyMap, EmptyMap, ast[i].kind.value)

\* The constants of a frame that the file declares hold values of their
\* declared types.
TypedAsDeclared(scope) ==
    \A i \in TopConstDecls :
        ScopeExist(scope, ast[i].kind.name) =>
            scope.vars[ast[i].kind.name].value.type = ast[i].kind.type_

\* C20: for every top-level `const T NAME = expr` the validator infers the
\* type of expr: it rejects the program with A43 when the type is not T and
\* with A03 when expr reads an undeclared identifier, before anything runs,
\* and no constant frame holds under NAME a value whose tag is not T.
C20_ConstTyped ==
    /\ \A i \in TopConstDecls :
          /\ (/\ phase # "validate"
              /\ InferredConst(i).ok
              /\ InferredConst(i).val # ast[i].kind.type_)
                => (phase = "error" /\ frames = <<>> /\ error.code = "A43")
          /\ (phase # "validate" /\ ~InferredConst(i).ok /\ InferredConst(i).err = "A03")
                => (phase = "error" /\ frames = <<>> /\ error.code = "A03")
    /\ TypedAsDeclared(consts)
    /\ (phase = "const_init" /\ frames # <<>>) => TypedAsDeclared(Top.locals)

\* The top-level items of the file, its constants moved before its
\* procedures.
ConstsFirst(nodes) ==
    SelectSeq(nodes, LAMBDA n : n.kind.k = "VarDecl")
        \o SelectSeq(nodes, LAMBDA n : n.kind.k = "Proc")

\* The validator has just ended: it accepted the program, or it reported its
\* error.
Validated ==
    \/ phase = "compile"
    \/ phase = "error" /\ ~check_types(ast).ok /\ error.code = check_types(ast).err

\* C21: the validator collects all top-level constants before it checks any
\* procedure body, so its outcome does not depend on the order of the
\* top-level items: it accepts the file exactly when it accepts the file
\* with the constants moved to the front.
C21_OrderIndependent ==
    Validated => ((phase = "compile") = check_types(ConstsFirst(ast)).ok)

\* The first statement of main declares a float from a built-in constant.
DeclaresFromBuiltIn ==
    LET main == ProcBody("main")
    IN  /\ main # <<>>
        /\ main[1].kind.k = "VarDecl"
        /\ main[1].kind.type_ = "Float"
        /\ main[1].kind.value.k = "Ident"
        /\ main[1].kind.value.name \in BuiltIns

\* C22: PI, TAU, E and SQRT_2 are in the constant frame in every stage: the
\* validator resolves each as a Float identifier in a procedure body, so a
\* `float r = PI` is accepted, and a Load of a built-in that main runs finds
\* it in the constant frame.
C22_BuiltIns ==
    /\ (DeclaresFromBuiltIn /\ Validated) => phase = "compile"
    /\ (phase = "run" /\ AtInstruction /\ CurOp = "Load"
            /\ Cur.instruction.name \in BuiltIns)
          => ScopeGet(Top.locals, consts, Cur.instruction.name).ok

\* main declares the Number variable x and then runs a for loop over
\* numbers whose one body statement reads the loop variable in the place the
\* validator checks.
ForBodyReadsVar ==
    LET main == ProcBody("main")
        for == main[2].kind
        reads(e) == e.k = "Ident" /\ e.name = for.var_name
        stmt == for.body[1].kind
    IN  /\ Len(main) = 3
        /\ main[1].kind = VarDecl("x", "Number", Num(5), FALSE)
        /\ for.k = "For"
        /\ Len(for.body) = 1
        /\ CASE stmt.k = "VarDecl" -> reads(stmt.value)
             [] stmt.k = "Assign" -> reads(stmt.expr)
             [] stmt.k \in {"Condition", "While"} -> reads(stmt.expr.left)
             [] OTHER -> FALSE

\* C23: inside the body of `for v from s to e` the loop variable is a
\* declared local of the numeric type of the bounds: the validator accepts a
\* body whose checked expression reads v (a declaration `number t = v`, an
\* assignment `x += v`, an if or while condition on v).
C23_LoopVariable == (ForBodyReadsVar /\ Validated) => phase = "compile"

\* C24: converting a Number n to Boolean yields true exactly when n = 1;
\* converting a String yields the boolean of "true" and of "false" and
\* returns the error A35 for every other string, never a panic.
C24_ToBoolean ==
    /\ phase = "boolean" => SameValue(Top.stack[1], TBoolean(tree.num = 1))
    /\ phase = "boolean_again" => SameValue(Top.stack[1], TBoolean(tree.num = 1))
    /\ phase # "panic"
    /\ phase = "boolean_failed" => error.code = "A35"

\* The 1-based number of the line of the file that the entry line_number of
\* ready_file was taken from: the kept lines are counted in file order.
RECURSIVE OriginFrom(_, _, _)
OriginFrom(raw_file, from, line_number) ==
    IF raw_file[from] # <<>> /\ Head(raw_file[from]) # "#"
    THEN IF line_number = 0 THEN from
         ELSE OriginFrom(raw_file, from + 1, line_number - 1)
    ELSE OriginFrom(raw_file, from + 1, line_number)

\* C26: show_error(i, text) reports the 1-based number of the line of the
\* original file from which ready_file[i] was taken, also when the same
\* trimmed text occurs on several lines of the file.
C26_ErrorLine ==
    (phase = "error" /\ handler.ready_file # <<>>) =>
        /\ out[1].text = handler.ready_file[error.line + 1]
        /\ out[1].number = OriginFrom(handler.raw_file, 1, error.line)

\* The numeric run of a line that holds one: its digits and dots.
NumericRun(line) == SelectSeq(line, LAMBDA c : c \in DigitChars \cup {DotChar})

Dots(run) == Cardinality({i \in 1..Len(run) : run[i] = DotChar})

\* C25: for every run of digits and `.` that starts with a digit the lexer
\* emits an integer literal when the run holds no `.` and a float literal
\* when it holds exactly one, whatever the length of the run: the run is one
\* value token, never a string-valued one, and never a float without a `.`.
C25_NumericLiteral ==
    LET run == NumericRun(handler.ready_file[1])
        values == SelectSeq(tokens[1], LAMBDA t : t.tok = "Value")
    IN  /\ (phase = "error" /\ run # <<>>) => Dots(run) > 1
        /\ phase = "lexed" =>
              /\ Len(values) = 1
              /\ values[1].value.text = run
              /\ values[1].value.type # "String"
              /\ Dots(run) = 0 => values[1].value.type = "Number"
              /\ Dots(run) = 1 => values[1].value.type = "Float"

\* The lines of the statements of the body of the while or if that is the
\* second statement of main at which the validator's check of that body
\* first fails, the header of the block itself being well typed.
NestedOffenders ==
    LET main == ProcBody("main")
        ps == collect_procs(ast, EmptyMap).procs
        cs == [n \in TopConstNames |-> "Number"]
        before == body_check(ps, EmptyMap, cs, SubSeq(main, 1, 1))
        block == main[2].kind
        body == IF block.k = "Condition" THEN block.yes ELSE block.body
        checked(k) == body_check(ps, before.variables, cs, SubSeq(body, 1, k))
    IN  IF /\ Len(main) = 3
           /\ main[2].kind.k \in {"While", "Condition"}
           /\ before.ok
           /\ expr_check(before.variables, cs, block.expr) = Ok("Boolean")
        THEN {body[k].line : k \in {j \in 1..Len(body) : checked(j - 1).ok /\ ~checked(j).ok}}
        ELSE {}

\* C27: a validator error is reported at the line of the offending
\* statement: for a statement nested in the body of an if or a while the
\* reported line is that statement's line, not the line of the block's
\* header or of its closing keyword.
C27_NestedLine ==
    (Validated /\ NestedOffenders # {}) => error.line \in NestedOffenders

\* The innermost activation is between two statements: at the start of its
\* tape, at its end, or at an instruction lowered from another line than the
\* instruction before it.
AtStatementBoundary ==
    /\ phase = "run"
    /\ frames # <<>>
    /\ \/ Top.ip = 0
       \/ Top.ip = Len(Top.tape)
       \/ /\ Top.ip < Len(Top.tape)
          /\ Top.tape[Top.ip + 1].line_number # Top.tape[Top.ip].line_number

\* C28: the instructions compiled for one statement have net operand-stack
\* effect zero, so the stack of an activation is empty at every statement
\* boundary; in particular a plain assignment `x = e` leaves no value behind.
C28_StackNeutral == AtStatementBoundary => Top.stack = <<>>

\* The names a body declares and the names it deletes, at its top level.
DeclaredIn(body) == {body[i].kind.name : i \in {j \in 1..Len(body) : body[j].kind.k = "VarDecl"}}

DeletedIn(body) == {body[i].kind.name : i \in {j \in 1..Len(body) : body[j].kind.k = "Delete"}}

\* The bodies of a block: of a loop, or of the branches of an if.
BodiesOf(kind) ==
    CASE kind.k \in {"While", "For"} -> {kind.body}
      [] kind.k = "Condition" ->
            {kind.yes} \cup (IF kind.no.some /\ kind.no.v.else_k = "Else"
                             THEN {kind.no.v.nodes} ELSE {})
      [] OTHER -> {}

\* The third statement of main declares a variable from a name that the
\* block before it declares in only some of its bodies and that has no other
\* declaration, or from a name that the block deletes in one of its bodies.
ReadsBranchLocal ==
    LET main == ProcBody("main")
        read == main[3].kind.value.name
        bodies == BodiesOf(main[2].kind)
    IN  /\ Len(main) = 3
        /\ bodies # {}
        /\ main[3].kind.k = "VarDecl"
        /\ main[3].kind.value.k = "Ident"
        /\ \/ /\ \E b \in bodies : read \in DeclaredIn(b)
              /\ read \notin DeclaredIn(SubSeq(main, 1, 1))
           \/ \E b \in bodies : read \in DeletedIn(b)

\* C29: in a program the validator accepted every Load that main or a callee
\* runs finds its name in the local frame or in the constant frame; the
\* validator accepts no program that reads a variable declared only inside
\* a branch or loop body that may not have run, or deleted inside one.
C29_LoadsResolve ==
    /\ (ReadsBranchLocal /\ Validated) => phase = "error"
    /\ (phase = "run" /\ AtInstruction /\ CurOp = "Load" /\ Cur.instruction.name # "input")
          => ScopeGet(Top.locals, consts, Cur.instruction.name).ok

\* Parser::start has ended: it returned the tree, or a failure stopped it.
StartEnded == phase \in {"parsed", "error", "panic"}

\* A top-level item whose block is not closed: the body loop of a proc, if,
\* while or for ran to the end of the input.
RanOffTheEnd == StartEnded /\ phase # "parsed" /\ parser.line >= Len(tokens)

\* The codes of the errors the parser returns.
ParseErrors == {"A04", "A05", "A10", "A15", "A19", "A20", "A26", "A29"}

\* The cursor line strictly increases from one top-level item to the next:
\* the item under the cursor, when it parses, leaves the cursor on a later
\* line that is not past the end of the input.
CursorAdvances ==
    (phase = "start" /\ parser.line < Len(tokens)) =>
        \A r \in {parse(tokens, parser.line)} :
            r.ok => (r.line > parser.line /\ r.line <= Len(tokens))

\* C30: Parser::start ends with the complete tree and the cursor at the end
\* of the input, or with the first parse error shown at a line of the file;
\* a block whose closing keyword is missing ends in a parse error, and no
\* line past the last is read.
C30_StartTerminates ==
    /\ phase = "parsed" => parser.line = Len(tokens)
    /\ (StartEnded /\ phase # "parsed") =>
          /\ phase = "error"
          /\ error.code \in ParseErrors
          /\ error.line < Len(tokens)
          /\ out[1].text = handler.ready_file[error.line + 1]

\* ---------------------------------------------------------------- expression trees

\* The tokens of an expression tree written without parentheses.
RECURSIVE Unparse(_)
Unparse(node) ==
    CASE node.k = "BinaryOp" -> Unparse(node.left) \o <<node.op>> \o Unparse(node.right)
      [] node.k = "UnaryOp" -> <<node.op>> \o Unparse(node.expr)
      [] node.k = "AsOp" -> Unparse(node.expr) \o <<Tok("As"), Tok(node.op)>>
      [] node.k = "Ident" ->
            <<IF node.name = "float" THEN Tok("Float") ELSE TokIdent(node.name)>>
      [] node.k = "Number" -> <<TokNumberValue(node.num)>>
      [] node.k = "String" -> <<TokStringValue(node.str)>>
      [] node.k = "Boolean" -> <<TokBooleanValue(node.bool)>>

\* The binding level of a binary operator, loosest first.
Level(tok) ==
    CASE tok.tok = "Or" -> 1
      [] tok.tok = "And" -> 2
      [] tok.tok \in {"Equal", "NotEqual", "Greater", "Less", "GreaterEqual", "LessEqual"} -> 3
      [] tok.tok \in {"Plus", "Minus"} -> 4
      [] tok.tok \in {"Multiply", "Divide", "Mod"} -> 5

\* Every binary node groups a tighter operator on its right and a tighter or
\* equal one on its left.
RECURSIVE Grouped(_)
Grouped(node) ==
    node.k = "BinaryOp" =>
        /\ node.left.k = "BinaryOp" => Level(node.left.op) >= Level(node.op)
        /\ node.right.k = "BinaryOp" => Level(node.right.op) > Level(node.op)
        /\ Grouped(node.left)
        /\ Grouped(node.right)

\* A line of operands separated by binary operators.
IsOperatorLine(toks) ==
    /\ Len(toks) % 2 = 1
    /\ \A i \in 1..Len(toks) :
          IF i % 2 = 1 THEN toks[i].tok \in {"Ident", "NumberValue"}
          ELSE toks[i].tok \in BinaryOperators

\* C8: parse_expr gives the binary operators five levels, loosest first (or;
\* and; the comparisons; + and -; *, / and %), and all of them associate to
\* the left: the tree of a line of operands and binary operators without
\* parentheses reads back as the line, groups a tighter operator before a
\* looser one and equal levels from the left, so that 1 + 2 * 3 is
\* 1 + (2 * 3) and a - b - c is (a - b) - c.
C8_Precedence ==
    (phase = "parsed" /\ IsOperatorLine(tokens)) =>
        /\ tree.ok
        /\ tree.pos = Len(tokens)
        /\ Unparse(tree.node) = tokens
        /\ Grouped(tree.node)
        /\ tokens = OperatorLine(2, <<"Plus", "Multiply">>, TRUE) =>
              tree.node = BinaryOp(AstNumber(1), Tok("Plus"),
                                   BinaryOp(AstNumber(2), Tok("Multiply"), AstNumber(3)))
        /\ tokens = OperatorLine(2, <<"Minus", "Minus">>, FALSE) =>
              tree.node = BinaryOp(BinaryOp(Ident("a"), Tok("Minus"), Ident("b")),
                                   Tok("Minus"), Ident("c"))

\* A parsed line of three operators of mixed levels.
C8_Witness ==
    /\ phase = "parsed"
    /\ tokens = OperatorLine(3, <<"Minus", "Multiply", "Minus">>, FALSE)
    /\ tree.ok
    /\ tree.node.k = "BinaryOp"
    /\ tree.node.left.k = "BinaryOp"
    /\ tree.node.left.right.k = "BinaryOp"

\* A line of terms separated by binary operators or `as`, some term with a
\* unary operator.
IsTermLine(toks) ==
    /\ \E i \in 1..Len(toks) : toks[i].tok \in {"Minus", "Not"} /\
          (i = 1 \/ toks[i - 1].tok \in (BinaryOperators \cup {"As", "Minus", "Not"}))
    /\ \A i \in 1..Len(toks) :
          toks[i].tok \in (BinaryOperators \cup {"As", "Not", "Ident", "Float"})

\* No unary operator has a binary expression as its operand, and no
\* conversion has a unary or binary expression as its operand.
RECURSIVE UnaryBelowBinary(_)
UnaryBelowBinary(node) ==
    CASE node.k = "UnaryOp" -> node.expr.k # "BinaryOp" /\ UnaryBelowBinary(node.expr)
      [] node.k = "AsOp" ->
            node.expr.k \notin {"UnaryOp", "BinaryOp"} /\ UnaryBelowBinary(node.expr)
      [] node.k = "BinaryOp" -> UnaryBelowBinary(node.left) /\ UnaryBelowBinary(node.right)
      [] OTHER -> TRUE

\* The line <unary> x <operator> y.
IsUnaryThenOperator(toks) ==
    /\ Len(toks) = 4
    /\ toks[1].tok \in {"Minus", "Not"}
    /\ toks[2].tok = "Ident"
    /\ toks[3].tok \in (BinaryOperators \cup {"As"})
    /\ toks[4].tok \in {"Ident", "Float"}

\* C9 as the specification states it: unary - and not bind tighter than every
\* binary operator, `as` included: in <unary> x <operator> y the unary node
\* has x alone as its operand and is the left operand of the operator's node.
C9_UnaryTightest ==
    (phase = "parsed" /\ IsUnaryThenOperator(tokens) /\ tree.ok) =>
        IF tokens[3].tok = "As"
        THEN /\ tree.node.k = "AsOp"
             /\ tree.node.expr = UnaryOp(tokens[1], Ident(tokens[2].name))
        ELSE /\ tree.node.k = "BinaryOp"
             /\ tree.node.left = UnaryOp(tokens[1], Ident(tokens[2].name))

\* C9: unary - and not bind tighter than every binary operator of the five
\* levels and looser than `as`: in <unary> x <binop> y the unary node has x
\* alone as its operand and is the left operand of the binary node, while in
\* <unary> x as T the operand of the unary node is the conversion x as T.
C9_UnaryBinding ==
    /\ (phase = "parsed" /\ IsTermLine(tokens) /\ tree.ok) =>
          /\ Unparse(tree.node) = tokens
          /\ UnaryBelowBinary(tree.node)
    /\ (phase = "parsed" /\ IsUnaryThenOperator(tokens) /\ tree.ok) =>
          IF tokens[3].tok = "As"
          THEN tree.node = UnaryOp(tokens[1], AsOp(Ident(tokens[2].name), "Float"))
          ELSE /\ tree.node.k = "BinaryOp"
               /\ tree.node.left = UnaryOp(tokens[1], Ident(tokens[2].name))

\* The parsed line - a as float.
C9_Witness ==
    /\ phase = "parsed"
    /\ tokens = <<Tok("Minus"), TokIdent("a"), Tok("As"), Tok("Float")>>
    /\ tree.ok
    /\ tree.node.k = "UnaryOp"

====
